---- MODULE Spec2Model ----
(***************************************************************************)
(* A model of the python uops emulator, tinygrad/runtime/ops_python.py:    *)
(* the ALU evaluator exec_alu, the memory access layer (_load, load,       *)
(* _store), the tensor-core helper wmma_helper with its two layouts, and   *)
(* the interpreter loop PythonProgram.__call__.                            *)
(*                                                                         *)
(* Values.  Every runtime value is an integer: a bool is 0 or 1 (python's  *)
(* True == 1), a float is modelled only where it is integer valued, a      *)
(* buffer is a handle (an index into mem).  A python list is a heap        *)
(* object (an index into heap), so that lists shared between Value Table   *)
(* entries stay shared when one of them is written in place.               *)
(*                                                                         *)
(* DTypes.  tinygrad.dtype is not part of the sources; what the model      *)
(* needs of it (classification, bounds, conversion, promotion order) is    *)
(* written from the specification, sections 4.1 and 4.2.  The 8 bit integer *)
(* types have their width; the 32 bit types are IntBits wide and the 64    *)
(* bit types LongBits wide, which keeps products within the 32 bit         *)
(* integers of TLC and the order char < int < long of the widths.          *)
(***************************************************************************)
EXTENDS Integers, Sequences, FiniteSets, TLC

VARIABLES
  uops,         \* self.uops: the program, a sequence of instructions
  global_size,  \* the call's global_size
  local_size,   \* the call's local_size
  bufs,         \* the call's *bufs: handles of the global buffers
  mem,          \* contents of every buffer, by handle
  gi,           \* how many elements of the idxs product have been taken
  idxs,         \* the current element of the idxs product
  ul,           \* Value Table: position -> heap reference
  dl,           \* Type Table: position -> dtype
  pbufs,        \* global buffers not yet bound in this iteration
  i,            \* instruction pointer (0-based, as in the source)
  loop_ends,    \* LOOP position -> position of its ENDLOOP
  heap,         \* python lists, by reference
  pc,           \* "call", "run", "done" (returned) or "fail" (raised)
  err,          \* the exception raised, "" when none
  xlog,         \* history: the instructions executed, in order
  wlog,         \* history: the element stores performed, in order
  glog,         \* history: the idxs tuples iterated, in order
  call,         \* function harness: the pending call
  ret           \* function harness: its outcome

vars == <<uops, global_size, local_size, bufs, mem, gi, idxs, ul, dl, pbufs,
          i, loop_ends, heap, pc, err, xlog, wlog, glog, call, ret>>

interp_vars == <<uops, global_size, local_size, bufs, mem, gi, idxs, ul, dl,
                 pbufs, i, loop_ends, heap, pc, err, xlog, wlog, glog>>

----------------------------------------------------------------------------
(* Bounds of the model *)

\* width, in bits, standing for the 32 bit integer types
IntBits == 10
\* width, in bits, standing for the 64 bit integer types
LongBits == 12
\* longest buffer handed to the memory functions
MaxBufLen == 3
\* largest loop trip count in the program catalogue
MaxTrip == 3
\* the instructions of a call the history keeps
MaxLog == 512

----------------------------------------------------------------------------
(* Generic helpers *)

Pow2(n) == 2 ^ n

Range(s) == {s[k] : k \in DOMAIN s}

\* python's min over a list of lengths, as zip truncates
MinLen(ss) == CHOOSE n \in {Len(ss[k]) : k \in DOMAIN ss} :
                \A k \in DOMAIN ss : n <= Len(ss[k])

RECURSIVE SumSeq(_)
SumSeq(s) == IF s = <<>> THEN 0 ELSE Head(s) + SumSeq(Tail(s))

\* an outcome: a value, or the exception raised
Ok(v) == [ok |-> TRUE, err |-> "", v |-> v]
Raise(e) == [ok |-> FALSE, err |-> e, v |-> 0]

----------------------------------------------------------------------------
(* DType catalogue *)

SignedBases == {"char", "int", "long"}
UnsignedBases == {"uchar", "uint", "ulong"}
IntBases == SignedBases \cup UnsignedBases

is_bool(t) == t = "bool"

is_unsigned(t) == t \in UnsignedBases

is_int(t) == t \in IntBases

is_float(t) == t = "float"

Bits(t) ==
  CASE t = "bool" -> 1
    [] t \in {"char", "uchar"} -> 8
    [] t \in {"int", "uint"} -> IntBits
    [] t \in {"long", "ulong"} -> LongBits

MinOf(t) == IF t \in SignedBases THEN 0 - Pow2(Bits(t) - 1) ELSE 0

MaxOf(t) == IF t \in SignedBases THEN Pow2(Bits(t) - 1) - 1 ELSE Pow2(Bits(t)) - 1

\* dtypes.check_bounds(x, dtype): TRUE when x is representable, else OverflowError
check_bounds(x, t) == MinOf(t) <= x /\ x <= MaxOf(t)

\* dtypes.as_type(x, dtype): truthiness for bool, else the value when representable
as_type(x, t) ==
  IF is_bool(t) THEN Ok(IF x # 0 THEN 1 ELSE 0)
  ELSE IF check_bounds(x, t) THEN Ok(x)
  ELSE Raise("OverflowError")

\* the basic class of a dtype
BasicClass(t) ==
  IF is_bool(t) THEN "bool" ELSE IF is_unsigned(t) THEN "uint" ELSE "int"

\* dtypes.is_uniform_types(*types)
is_uniform_types(types) == \A a, b \in Range(types) : BasicClass(a) = BasicClass(b)

\* dtypes.get_highest_order(*types): bool < narrower int < wider int
get_highest_order(types) ==
  CHOOSE t \in Range(types) : \A u \in Range(types) : Bits(u) <= Bits(t)

\* a typed operand: dtypes.type(x) and the value
TV(t, v) == [ty |-> t, v |-> v]

Types(p) == [k \in DOMAIN p |-> p[k].ty]

----------------------------------------------------------------------------
(* exec_alu *)

\* python's // and % on integers
FloorDiv(a, b) == a \div b

PyMod(a, b) == a - b * (a \div b)

\* check_types(arg, p, dtype)
check_types(p, dtype) == is_uniform_types(Types(p) \o <<dtype>>)

\* patch_p(p, dtype): bools are cast to dtype, dtype becomes the highest order
patch_p(p, dtype) ==
  LET patched == IF \E k \in DOMAIN p : is_bool(p[k].ty)
                 THEN [k \in DOMAIN p |->
                        IF is_bool(p[k].ty) THEN TV(dtype, as_type(p[k].v, dtype).v)
                        ELSE p[k]]
                 ELSE p
  IN [p |-> patched, dtype |-> get_highest_order(Types(patched) \o <<dtype>>)]

\* the operations of the table of lines 39-56 the model covers: those on
\* integers that need no bit arithmetic; no call of the model names another
AluOps == {"MULACC", "WHERE", "NEG", "MUL", "ADD", "SUB", "MAX", "CMPEQ",
           "CMPLT", "DIV", "MOD"}

NoneVal == [none |-> TRUE, v |-> 0]
Some(v) == [none |-> FALSE, v |-> v]
Bool(b) == IF b THEN 1 ELSE 0

\* BinaryOps.DIV with rounding toward zero, as C divides
DivTruncating(p, dtype) ==
  IF Len(p) = 2 /\ is_int(dtype) /\ p[2].v # 0
  THEN LET a == p[1].v
           b == p[2].v
           q == a \div b
       IN Some(IF q * b # a /\ q < 0 THEN q + 1 ELSE q)
  ELSE NoneVal

\* BinaryOps.DIV: the float branch is outside the model (no float operands)
DivOp(p, dtype) ==
  IF Len(p) = 2 /\ is_int(dtype) /\ p[2].v # 0
  THEN Some(FloorDiv(p[1].v, p[2].v))
  ELSE NoneVal

\* operations[arg](): the raw result, or None
Operation(arg, dtype, p) ==
  LET num == is_int(dtype) \/ is_float(dtype)
  IN CASE arg = "MULACC" ->
            IF Len(p) = 3 /\ num THEN Some(p[1].v * p[2].v + p[3].v) ELSE NoneVal
       [] arg = "WHERE" ->
            IF p[1].v # 0 THEN Some(p[2].v)
            ELSE IF Len(p) = 3 /\ is_bool(p[1].ty) THEN Some(p[3].v) ELSE NoneVal
       [] arg = "NEG" ->
            IF Len(p) = 1 /\ num THEN Some(0 - p[1].v) ELSE NoneVal
       [] arg = "MUL" ->
            IF Len(p) = 2 /\ num THEN Some(p[1].v * p[2].v) ELSE NoneVal
       [] arg = "ADD" ->
            IF Len(p) = 2 /\ num THEN Some(p[1].v + p[2].v) ELSE NoneVal
       [] arg = "SUB" ->
            IF Len(p) = 2 /\ num THEN Some(p[1].v - p[2].v) ELSE NoneVal
       [] arg = "MAX" ->
            IF Len(p) = 2 /\ num
            THEN Some(IF p[1].v >= p[2].v THEN p[1].v ELSE p[2].v) ELSE NoneVal
       [] arg = "CMPEQ" ->
            IF Len(p) = 2 /\ num THEN Some(Bool(p[1].v = p[2].v)) ELSE NoneVal
       [] arg = "CMPLT" ->
            IF Len(p) = 2 /\ num THEN Some(Bool(p[1].v < p[2].v)) ELSE NoneVal
       [] arg = "DIV" -> DivOp(p, dtype)
       [] arg = "MOD" ->
            IF Len(p) = 2 /\ is_int(dtype) /\ ~is_unsigned(dtype) /\ p[2].v # 0
            THEN Some(PyMod(p[1].v, p[2].v)) ELSE NoneVal

\* the dtype the result is retried in after an OverflowError
Upgrade(dtype) ==
  IF is_float(dtype) THEN "double"
  ELSE IF is_unsigned(dtype) THEN "ulong"
  ELSE IF is_int(dtype) THEN "long"
  ELSE dtype

\* the result is kept in the resolved dtype whatever its value
ConvertNoCheck(result, dtype) ==
  [ok |-> TRUE, err |-> "", ty |-> dtype, v |-> result]

\* lines 64-84: check_bounds, one upgrade, as_type
Convert(result, dtype) ==
  LET dt == IF check_bounds(result, dtype) THEN dtype ELSE Upgrade(dtype)
      r  == as_type(result, dt)
  IN [ok |-> r.ok, err |-> r.err, ty |-> dt, v |-> r.v]

AluRaise(e) == [ok |-> FALSE, err |-> e, ty |-> "", v |-> 0]

\* exec_alu(arg, dtype, p), p a sequence of typed operands
exec_alu(arg, dtype, p) ==
  LET pp   == IF arg = "WHERE" THEN patch_p(Tail(p), dtype) ELSE patch_p(p, dtype)
      q    == IF arg = "WHERE"
              THEN <<TV("bool", as_type(p[1].v, "bool").v)>> \o pp.p
              ELSE pp.p
      dt   == pp.dtype
      res  == Operation(arg, dt, q)
  IN IF ~check_types(pp.p, dt) THEN AluRaise("TypeError")
     ELSE IF arg \notin AluOps THEN AluRaise("NotImplementedError")
     ELSE IF res.none THEN AluRaise("ValueError")
     ELSE Convert(res.v, dt)

----------------------------------------------------------------------------
(* Memory access layer *)

\* _load without the test for a negative offset: python indexes from the end
LoadNegativeWraps(m, off) ==
  IF off >= Len(m) \/ off < 0 - Len(m) THEN Raise("IndexError")
  ELSE IF off < 0 THEN Ok(m[Len(m) + off + 1])
  ELSE Ok(m[off + 1])

\* _load(m, i) on the contents m of a buffer
_load(m, off) ==
  IF off < 0 \/ off >= Len(m) THEN Raise("IndexError") ELSE Ok(m[off + 1])

\* _store(m, i, v): the new contents of the buffer
_store(m, off, v) ==
  IF off < 0 \/ off >= Len(m) THEN Raise("IndexError")
  ELSE Ok([m EXCEPT ![off + 1] = v])

\* one lane of load(inp, j) that checks the bounds before it looks at the gate
LoadLaneCheckFirst(inp, j, k) ==
  LET r == _load(inp[1][k], inp[2][k] + j)
  IN IF ~r.ok THEN r
     ELSE IF Len(inp) = 4 /\ inp[3][k] = 0 THEN Ok(inp[4][k])
     ELSE r

\* one lane of load(inp, j)
LoadLane(inp, j, k) ==
  IF Len(inp) = 4
  THEN IF inp[3][k] # 0 THEN _load(inp[1][k], inp[2][k] + j) ELSE Ok(inp[4][k])
  ELSE _load(inp[1][k], inp[2][k] + j)

\* load(inp, j): inp[1] holds, per lane, the contents of that lane's buffer
load(inp, j) ==
  LET n == IF Len(inp) = 4 THEN MinLen(inp) ELSE MinLen(<<inp[1], inp[2]>>)
  IN IF \E k \in 1..n : ~LoadLane(inp, j, k).ok THEN Raise("IndexError")
     ELSE Ok([k \in 1..n |-> LoadLane(inp, j, k).v])

----------------------------------------------------------------------------
(* Instructions, dtypes of instructions, and the python lists of the      *)
(* Value Table                                                             *)

\* a DType: scalar base, vector count; an ImageDType also has a shape
DT(base, count) == [base |-> base, count |-> count, shape |-> <<>>]
ImageDT(h, w) == [base |-> "float", count |-> 1, shape |-> <<h, w>>]
NoDType == [base |-> "None", count |-> 0, shape |-> <<>>]

\* isinstance(d, ImageDType)
IsImage(d) == d.shape # <<>>

\* an instruction (uop, dtype, vin, arg); arg has a number and a string part
Arg(n, s) == [n |-> n, s |-> s]
NoArg == Arg(0, "")
UOp(uop, dtype, vin, arg) == [uop |-> uop, dtype |-> dtype, vin |-> vin, arg |-> arg]

void_ops == {"STORE", "ENDLOOP", "BARRIER", "IF", "ENDIF"}

\* [x] * n
Repeat(x, n) == [k \in 1..n |-> x]

Reverse(s) == [k \in 1..Len(s) |-> s[Len(s) + 1 - k]]

\* itertools.product(*[range(x) for x in sizes]): the last range varies fastest
RECURSIVE Product(_)
Product(sizes) ==
  IF sizes = <<>> THEN << <<>> >>
  ELSE LET front == Product(SubSeq(sizes, 1, Len(sizes) - 1))
           n == sizes[Len(sizes)]
       IN [k \in 1..(Len(front) * n) |->
             Append(front[((k - 1) \div n) + 1], (k - 1) % n)]

\* line 104
warp == Product(Reverse(local_size))
warp_size == Len(warp)

\* the product taken over global_size as given, not reversed
AllIdxsUnreversed == Product(global_size)

\* line 106: the tuples the for loop goes through
AllIdxs == Product(Reverse(global_size))

\* the instruction at the instruction pointer
U == uops[i + 1]

Has(d, k) == k \in DOMAIN d
Put(d, k, v) == (k :> v) @@ d
Del(d, k) == [x \in (DOMAIN d) \ {k} |-> d[x]]

\* every operand index kept, those of void instructions included
AllOperands == U.vin

\* lines 115-116: the operands that are not void instructions
ValueOperands == SelectSeq(U.vin, LAMBDA v : uops[v + 1].uop \notin void_ops)
OperandsBound == \A k \in DOMAIN ValueOperands : Has(ul, ValueOperands[k])
inp == [k \in DOMAIN ValueOperands |-> ul[ValueOperands[k]]]
dtp == [k \in DOMAIN ValueOperands |-> dl[ValueOperands[k]]]

\* a new list on a heap: the heap with it, and its reference
Alloc(h, obj) == [heap |-> Append(h, obj), ref |-> Len(h) + 1]

\* warp_size new lists of count copies of x each, and the list of them
AllocVectorLaneMajor(h, count, x) ==
  LET inner == [j \in 1..warp_size |-> Repeat(x, count)]
      h1 == h \o inner
  IN Alloc(h1, [j \in 1..warp_size |-> Len(h) + j])

\* lines 158 and 163: count new lists of warp_size copies of x each, and the
\* list of them
AllocVector(h, count, x) ==
  LET inner == [j \in 1..count |-> Repeat(x, warp_size)]
      h1 == h \o inner
  IN Alloc(h1, [j \in 1..count |-> Len(h) + j])

\* a list of new lists, one per row of rows
AllocRows(h, rows) ==
  Alloc(h \o rows, [j \in 1..Len(rows) |-> Len(h) + j])

\* the lanes of a scalar entry, the rows of a vector entry
Lanes(ref) == heap[ref]
Rows(ref) == [j \in 1..Len(heap[ref]) |-> heap[heap[ref][j]]]

\* the interpreter's mutable state, and the outcome of one handler
Cur == [mem |-> mem, ul |-> ul, dl |-> dl, i |-> i, loop_ends |-> loop_ends,
        heap |-> heap, pbufs |-> pbufs, wlog |-> wlog, err |-> ""]
Failed(s, e) == [s EXCEPT !.err = e]

\* line 143 for the current instruction
Typed == [Cur EXCEPT !.dl = Put(dl, i, U.dtype)]

\* lines 242-243 after ul[i] = ref with the heap h
Emit(s, h, ref) == [s EXCEPT !.heap = h, !.ul = Put(s.ul, i, ref), !.i = i + 1]

\* the loop variables bound when an instruction executes
LoopEnv ==
  LET ps == {p \in DOMAIN ul : uops[p + 1].uop = "LOOP"}
  IN [p \in ps |-> heap[ul[p]]]

Fetch(kinds) == pc = "run" /\ i < Len(uops) /\ U.uop \in kinds

\* the history of the instructions executed, with the loop variables each
\* found; it keeps the first MaxLog of them
Logged ==
  IF Len(xlog) < MaxLog
  THEN Append(xlog, [it |-> gi, pos |-> i, uop |-> U.uop, loops |-> LoopEnv])
  ELSE xlog

\* one instruction has executed with outcome s, an exception being dropped
\* and the instruction after it taken up
CommitResuming(s) ==
  /\ mem' = s.mem /\ ul' = s.ul /\ dl' = s.dl
  /\ i' = IF s.err = "" THEN s.i ELSE i + 1
  /\ loop_ends' = s.loop_ends /\ heap' = s.heap /\ pbufs' = s.pbufs
  /\ wlog' = s.wlog /\ err' = s.err
  /\ pc' = "run"
  /\ xlog' = Logged
  /\ UNCHANGED <<uops, global_size, local_size, bufs, gi, idxs, glog, call, ret>>

\* one instruction has executed with outcome s
Commit(s) ==
  /\ mem' = s.mem /\ ul' = s.ul /\ dl' = s.dl /\ i' = s.i
  /\ loop_ends' = s.loop_ends /\ heap' = s.heap /\ pbufs' = s.pbufs
  /\ wlog' = s.wlog /\ err' = s.err
  /\ pc' = IF s.err = "" THEN "run" ELSE "fail"
  /\ xlog' = Logged
  /\ UNCHANGED <<uops, global_size, local_size, bufs, gi, idxs, glog, call, ret>>

----------------------------------------------------------------------------
(* STORE, lines 118-133 *)

\* the element stores of a STORE in the order the loops make them; check is
\* the assertion of line 125, TRUE where there is none
StoreOp(lane, m, off, v, check) ==
  [lane |-> lane, m |-> m, off |-> off, v |-> v, check |-> check]

ImageStoreOpsWith(asserting) ==
  LET sh == dtp[1].shape
      ms == Lanes(inp[1])
      xy == Rows(inp[2])
      vals == Rows(inp[3])
      n == MinLen(<<ms, xy[1], xy[2]>>)
      op(j, k) ==
        LET ox == xy[1][k]
            oy == xy[2][k]
        IN StoreOp(k, ms[k], ox * 4 + oy * sh[2] * 4 + (j - 1), vals[j][k],
                   asserting => (ox >= 0 /\ ox < sh[2] /\ oy >= 0 /\ oy < sh[1]))
  IN [q \in 1..(Len(vals) * n) |-> op(((q - 1) \div n) + 1, ((q - 1) % n) + 1)]

\* the image store without the assertion of line 125
ImageStoreOpsUnchecked == ImageStoreOpsWith(FALSE)

\* lines 122-126
ImageStoreOps == ImageStoreOpsWith(TRUE)

VectorStoreOps ==
  LET ms == Lanes(inp[1])
      os == Lanes(inp[2])
      vals == Rows(inp[3])
      n == MinLen(<<ms, os>>)
      op(j, k) == StoreOp(k, ms[k], os[k] + (j - 1), vals[j][k], TRUE)
  IN [q \in 1..(Len(vals) * n) |-> op(((q - 1) \div n) + 1, ((q - 1) % n) + 1)]

ScalarStoreOps ==
  LET ms == Lanes(inp[1])
      os == Lanes(inp[2])
      vs == Lanes(inp[3])
  IN [k \in 1..MinLen(<<ms, os, vs>>) |-> StoreOp(k, ms[k], os[k], vs[k], TRUE)]

\* the history of the element stores, of which it keeps the first MaxLog
StoreLogged(w, o) ==
  IF Len(w) < MaxLog
  THEN Append(w, [it |-> gi, pos |-> i, lane |-> o.lane, m |-> o.m,
                  off |-> o.off, v |-> o.v])
  ELSE w

\* the stores made one after the other until one fails
RECURSIVE ApplyStores(_, _)
ApplyStores(ops, s) ==
  IF ops = <<>> THEN s
  ELSE LET o == Head(ops)
           r == _store(s.mem[o.m], o.off, o.v)
       IN IF ~o.check THEN Failed(s, "AssertionError")
          ELSE IF ~r.ok THEN Failed(s, r.err)
          ELSE ApplyStores(Tail(ops),
                 [s EXCEPT !.mem[o.m] = r.v,
                           !.wlog = StoreLogged(s.wlog, o)])

ExecStore ==
  IF ~OperandsBound THEN Failed(Cur, "KeyError")
  ELSE IF Len(inp) > 3 THEN Failed(Cur, "AssertionError")
  ELSE IF Len(inp) < 3 THEN Failed(Cur, "IndexError")
  ELSE LET done ==
             IF IsImage(dtp[1])
             THEN IF dtp[3].count # 4 THEN Failed(Cur, "AssertionError")
                  ELSE ApplyStores(ImageStoreOps, Cur)
             ELSE IF dtp[3].count > 1 THEN ApplyStores(VectorStoreOps, Cur)
             ELSE ApplyStores(ScalarStoreOps, Cur)
       IN IF done.err # "" THEN done ELSE [done EXCEPT !.i = i + 1]

Store == Fetch({"STORE"}) /\ Commit(ExecStore)

----------------------------------------------------------------------------
(* ENDLOOP, BARRIER, IF, ENDIF, lines 134-141 *)

\* the back-edge taken to the instruction after the LOOP
ExecEndloopPastLoop ==
  IF ~OperandsBound THEN Failed(Cur, "KeyError")
  ELSE [Cur EXCEPT !.loop_ends = Put(loop_ends, U.vin[1], i), !.i = U.vin[1] + 1]

\* lines 134-137
ExecEndloop ==
  IF ~OperandsBound THEN Failed(Cur, "KeyError")
  ELSE [Cur EXCEPT !.loop_ends = Put(loop_ends, U.vin[1], i), !.i = U.vin[1]]

Endloop == Fetch({"ENDLOOP"}) /\ Commit(ExecEndloop)

\* an IF that goes past its ENDIF where a lane has a false condition
ExecNoOpBranching ==
  IF ~OperandsBound THEN Failed(Cur, "KeyError")
  ELSE IF U.uop = "IF" /\ inp # <<>> /\ \E k \in DOMAIN Lanes(inp[1]) : Lanes(inp[1])[k] = 0
       THEN [Cur EXCEPT !.i = i + 3]
  ELSE [Cur EXCEPT !.i = i + 1]

\* lines 138-141
ExecNoOp ==
  IF ~OperandsBound THEN Failed(Cur, "KeyError")
  ELSE [Cur EXCEPT !.i = i + 1]

NoOp == Fetch({"BARRIER", "IF", "ENDIF"}) /\ Commit(ExecNoOp)

----------------------------------------------------------------------------
(* The instructions that leave a value, lines 142-243 *)

\* the first buffer bound without being taken off the list
ExecDefineGlobalNoPop ==
  IF ~OperandsBound THEN Failed(Cur, "KeyError")
  ELSE IF U.dtype = NoDType THEN Failed(Cur, "AssertionError")
  ELSE IF pbufs = <<>> THEN Failed(Typed, "IndexError")
  ELSE LET a == Alloc(heap, Repeat(Head(pbufs), warp_size))
       IN Emit(Typed, a.heap, a.ref)

\* lines 144-146; cast(dtype.fmt) is the typed view, which mem already holds
ExecDefineGlobal ==
  IF ~OperandsBound THEN Failed(Cur, "KeyError")
  ELSE IF U.dtype = NoDType THEN Failed(Cur, "AssertionError")
  ELSE IF pbufs = <<>> THEN Failed(Typed, "IndexError")
  ELSE LET a == Alloc(heap, Repeat(Head(pbufs), warp_size))
       IN Emit([Typed EXCEPT !.pbufs = Tail(pbufs)], a.heap, a.ref)

DefineGlobal == Fetch({"DEFINE_GLOBAL"}) /\ Commit(ExecDefineGlobal)

\* the buffer a DEFINE_LOCAL allocates: arg[1] elements, all zero
NewLocal(n) == Repeat(0, n)

\* lines 147-150
ExecDefineLocal ==
  IF ~OperandsBound THEN Failed(Cur, "KeyError")
  ELSE IF U.dtype = NoDType THEN Failed(Cur, "AssertionError")
  ELSE LET a == Alloc(heap, Repeat(Len(mem) + 1, warp_size))
       IN Emit([Typed EXCEPT !.mem = Append(mem, NewLocal(U.arg.n))], a.heap, a.ref)

DefineLocal == Fetch({"DEFINE_LOCAL"}) /\ Commit(ExecDefineLocal)

\* idxs[2-arg[0]], the coordinate a global SPECIAL of dimension d reads
GlobalCoord(d) == idxs[3 - d]

\* lines 151-155; any other name leaves no entry and line 242 fails
ExecSpecial ==
  IF ~OperandsBound THEN Failed(Cur, "KeyError")
  ELSE IF U.dtype = NoDType THEN Failed(Cur, "AssertionError")
  ELSE IF U.arg.s = "g"
       THEN LET a == Alloc(heap, Repeat(GlobalCoord(U.arg.n), warp_size))
            IN Emit(Typed, a.heap, a.ref)
  ELSE IF U.arg.s = "l"
       THEN LET a == Alloc(heap, [k \in 1..warp_size |-> warp[k][3 - U.arg.n]])
            IN Emit(Typed, a.heap, a.ref)
  ELSE Failed(Typed, "AssertionError")

Special == Fetch({"SPECIAL"}) /\ Commit(ExecSpecial)

\* dtypes.as_type(arg, dtype) for the dtype of an instruction
AsDType(x, d) == IF d.base = "float" THEN Ok(x) ELSE as_type(x, d.base)

\* lines 156-160
ExecConst ==
  IF ~OperandsBound THEN Failed(Cur, "KeyError")
  ELSE IF U.dtype = NoDType THEN Failed(Cur, "AssertionError")
  ELSE LET c == AsDType(U.arg.n, U.dtype)
       IN IF ~c.ok THEN Failed(Typed, c.err)
          ELSE IF U.dtype.count > 1
          THEN LET a == AllocVector(heap, U.dtype.count, c.v)
               IN Emit(Typed, a.heap, a.ref)
          ELSE LET a == Alloc(heap, Repeat(c.v, warp_size))
               IN Emit(Typed, a.heap, a.ref)

Const == Fetch({"CONST"}) /\ Commit(ExecConst)

\* lines 161-165
ExecDefineAcc ==
  IF ~OperandsBound THEN Failed(Cur, "KeyError")
  ELSE IF U.dtype = NoDType THEN Failed(Cur, "AssertionError")
  ELSE IF U.dtype.count > 1
       THEN LET a == AllocVector(heap, U.dtype.count, U.arg.n)
            IN Emit(Typed, a.heap, a.ref)
  ELSE LET a == Alloc(heap, Repeat(U.arg.n, warp_size))
       IN Emit(Typed, a.heap, a.ref)

DefineAcc == Fetch({"DEFINE_ACC"}) /\ Commit(ExecDefineAcc)

\* lines 166-175, the loop left when the variable reaches end + late
ExecLoopWith(late) ==
  IF ~OperandsBound THEN Failed(Cur, "KeyError")
  ELSE IF U.dtype = NoDType THEN Failed(Cur, "AssertionError")
  ELSE IF ~Has(ul, i)
       THEN IF Lanes(inp[1]) = <<>> THEN Failed(Typed, "IndexError")
            ELSE LET a == Alloc(heap, Repeat(Lanes(inp[1])[1], warp_size))
                 IN Emit(Typed, a.heap, a.ref)
  ELSE LET bumped == [k \in 1..Len(heap[ul[i]]) |-> heap[ul[i]][k] + 1]
           h == [heap EXCEPT ![ul[i]] = bumped]
           s == [Typed EXCEPT !.heap = h]
       IN IF bumped = <<>> \/ Lanes(inp[2]) = <<>> THEN Failed(s, "IndexError")
          ELSE IF bumped[1] = Lanes(inp[2])[1] + late
          THEN IF ~Has(loop_ends, i) THEN Failed([s EXCEPT !.ul = Del(ul, i)], "KeyError")
               ELSE [s EXCEPT !.ul = Del(ul, i), !.i = loop_ends[i] + 1]
          ELSE [s EXCEPT !.i = i + 1]

\* the loop left one iteration late, as with a test ul[i][0] > end
ExecLoopLate == ExecLoopWith(1)

\* the loop left with its variable still in the Value Table
ExecLoopKeepsEntry ==
  IF ~OperandsBound THEN Failed(Cur, "KeyError")
  ELSE IF U.dtype = NoDType THEN Failed(Cur, "AssertionError")
  ELSE IF ~Has(ul, i)
       THEN IF Lanes(inp[1]) = <<>> THEN Failed(Typed, "IndexError")
            ELSE LET a == Alloc(heap, Repeat(Lanes(inp[1])[1], warp_size))
                 IN Emit(Typed, a.heap, a.ref)
  ELSE LET bumped == [k \in 1..Len(heap[ul[i]]) |-> heap[ul[i]][k] + 1]
           h == [heap EXCEPT ![ul[i]] = bumped]
           s == [Typed EXCEPT !.heap = h]
       IN IF bumped = <<>> \/ Lanes(inp[2]) = <<>> THEN Failed(s, "IndexError")
          ELSE IF bumped[1] = Lanes(inp[2])[1]
          THEN IF ~Has(loop_ends, i) THEN Failed(s, "KeyError")
               ELSE [s EXCEPT !.i = loop_ends[i] + 1]
          ELSE [s EXCEPT !.i = i + 1]

\* the loop with its bounds compared on entry, as a while loop does: a loop
\* that has nothing to run goes to the ENDLOOP it knows of
ExecLoopCheckFirst ==
  IF OperandsBound /\ U.dtype # NoDType /\ ~Has(ul, i)
     /\ Lanes(inp[1]) # <<>> /\ Lanes(inp[2]) # <<>>
     /\ Lanes(inp[1])[1] >= Lanes(inp[2])[1]
  THEN IF ~Has(loop_ends, i) THEN Failed(Typed, "KeyError")
       ELSE [Typed EXCEPT !.i = loop_ends[i] + 1]
  ELSE ExecLoopWith(0)

\* the loop with only lane 0 of its variable incremented
ExecLoopLaneZero ==
  IF ~OperandsBound THEN Failed(Cur, "KeyError")
  ELSE IF U.dtype = NoDType THEN Failed(Cur, "AssertionError")
  ELSE IF ~Has(ul, i)
       THEN IF Lanes(inp[1]) = <<>> THEN Failed(Typed, "IndexError")
            ELSE LET a == Alloc(heap, Repeat(Lanes(inp[1])[1], warp_size))
                 IN Emit(Typed, a.heap, a.ref)
  ELSE LET bumped == [k \in 1..Len(heap[ul[i]]) |->
                        heap[ul[i]][k] + (IF k = 1 THEN 1 ELSE 0)]
           h == [heap EXCEPT ![ul[i]] = bumped]
           s == [Typed EXCEPT !.heap = h]
       IN IF bumped = <<>> \/ Lanes(inp[2]) = <<>> THEN Failed(s, "IndexError")
          ELSE IF bumped[1] = Lanes(inp[2])[1]
          THEN IF ~Has(loop_ends, i) THEN Failed([s EXCEPT !.ul = Del(ul, i)], "KeyError")
               ELSE [s EXCEPT !.ul = Del(ul, i), !.i = loop_ends[i] + 1]
          ELSE [s EXCEPT !.i = i + 1]

\* lines 166-175
ExecLoop == ExecLoopWith(0)

Loop == Fetch({"LOOP"}) /\ Commit(ExecLoop)

\* lines 176-183; the conversion of a scalar CAST falls back to the operand
ExecCast ==
  IF ~OperandsBound THEN Failed(Cur, "KeyError")
  ELSE IF U.dtype = NoDType THEN Failed(Cur, "AssertionError")
  ELSE IF U.dtype.count > 1
       THEN LET a == Alloc(heap, inp)
            IN Emit(Typed, a.heap, a.ref)
  ELSE IF inp = <<>> THEN Failed(Typed, "IndexError")
  ELSE LET xs == Lanes(inp[1])
       IN IF \A k \in DOMAIN xs : AsDType(xs[k], U.dtype).ok
          THEN LET a == Alloc(heap, [k \in DOMAIN xs |-> AsDType(xs[k], U.dtype).v])
               IN Emit(Typed, a.heap, a.ref)
          ELSE Emit(Typed, heap, inp[1])

Cast == Fetch({"CAST"}) /\ Commit(ExecCast)

\* the loads of an image LOAD for channel j: 0 outside the image
ImageLoadRow(j) ==
  LET sh == dtp[1].shape
      ms == Lanes(inp[1])
      xy == Rows(inp[2])
      n == MinLen(<<ms, xy[1], xy[2]>>)
  IN [k \in 1..n |->
        LET ox == xy[1][k]
            oy == xy[2][k]
        IN IF ox < 0 \/ ox >= sh[2] \/ oy < 0 \/ oy >= sh[1] THEN Ok(0)
           ELSE _load(mem[ms[k]], ox * 4 + oy * sh[2] * 4 + (j - 1))]

\* the operand list line 195 hands to load for channel j, buffers resolved
LoadArgs(j) ==
  LET pick(k) == IF dtp[k].count > 1 THEN Rows(inp[k])[j] ELSE Lanes(inp[k])
  IN [k \in 1..Len(inp) |->
        IF k = 1 THEN [q \in DOMAIN pick(1) |-> mem[pick(1)[q]]] ELSE pick(k)]

\* the rows of results, or the first failure
Gather(rows) ==
  IF \E j \in DOMAIN rows : ~rows[j].ok
  THEN Raise(rows[CHOOSE j \in DOMAIN rows :
                     ~rows[j].ok /\ \A q \in 1..(j - 1) : rows[q].ok].err)
  ELSE Ok([j \in DOMAIN rows |-> rows[j].v])

\* lines 184-197
ExecLoad ==
  IF ~OperandsBound THEN Failed(Cur, "KeyError")
  ELSE IF U.dtype = NoDType THEN Failed(Cur, "AssertionError")
  ELSE IF Len(inp) < 2 THEN Failed(Typed, "IndexError")
  ELSE IF IsImage(dtp[1])
       THEN IF U.dtype.count # 4 THEN Failed(Typed, "AssertionError")
            ELSE LET r == Gather([j \in 1..4 |-> Gather(ImageLoadRow(j))])
                 IN IF ~r.ok THEN Failed(Typed, r.err)
                    ELSE LET a == AllocRows(heap, r.v)
                         IN Emit(Typed, a.heap, a.ref)
  ELSE IF U.dtype.count > 1
       THEN LET r == Gather([j \in 1..U.dtype.count |-> load(LoadArgs(j), j - 1)])
            IN IF ~r.ok THEN Failed(Typed, r.err)
               ELSE LET a == AllocRows(heap, r.v)
                    IN Emit(Typed, a.heap, a.ref)
  ELSE LET r == load(LoadArgs(1), 0)
       IN IF ~r.ok THEN Failed(Typed, r.err)
          ELSE LET a == Alloc(heap, r.v)
               IN Emit(Typed, a.heap, a.ref)

Load == Fetch({"LOAD"}) /\ Commit(ExecLoad)

\* a PHI that leaves its first operand as it is and emits a list of its own
ExecPhiCopy ==
  IF ~OperandsBound THEN Failed(Cur, "KeyError")
  ELSE IF U.dtype = NoDType THEN Failed(Cur, "AssertionError")
  ELSE IF Len(inp) < 2 \/ Len(heap[inp[2]]) < Len(heap[inp[1]])
       THEN Failed(Typed, "IndexError")
  ELSE LET a == Alloc(heap, [j \in 1..Len(heap[inp[1]]) |-> heap[inp[2]][j]])
       IN Emit(Typed, a.heap, a.ref)

\* lines 198-201: the first operand's list is written in place and shared;
\* where the second is shorter, its elements are written before line 200 fails
ExecPhi ==
  IF ~OperandsBound THEN Failed(Cur, "KeyError")
  ELSE IF U.dtype = NoDType THEN Failed(Cur, "AssertionError")
  ELSE IF Len(inp) < 2 THEN Failed(Typed, "IndexError")
  ELSE LET written ==
             [heap EXCEPT ![inp[1]] =
                [j \in 1..Len(heap[inp[1]]) |->
                   IF j <= Len(heap[inp[2]]) THEN heap[inp[2]][j]
                   ELSE heap[inp[1]][j]]]
       IN IF Len(heap[inp[2]]) < Len(heap[inp[1]])
          THEN Failed([Typed EXCEPT !.heap = written], "IndexError")
          ELSE Emit(Typed, written, inp[1])

Phi == Fetch({"PHI"}) /\ Commit(ExecPhi)

\* lines 202-203
ExecGep ==
  IF ~OperandsBound THEN Failed(Cur, "KeyError")
  ELSE IF U.dtype = NoDType THEN Failed(Cur, "AssertionError")
  ELSE IF inp = <<>> \/ U.arg.n >= Len(heap[inp[1]]) THEN Failed(Typed, "IndexError")
  ELSE Emit(Typed, heap, heap[inp[1]][U.arg.n + 1])

Gep == Fetch({"GEP"}) /\ Commit(ExecGep)

\* all_same
all_same(xs) == \A a, b \in Range(xs) : a = b

\* line 241: exec_alu lane by lane, operands typed by their Type Table entry
AluLanes ==
  LET n == MinLen([k \in DOMAIN inp |-> Lanes(inp[k])])
  IN [q \in 1..n |->
        exec_alu(U.arg.s, U.dtype.base,
                 [k \in DOMAIN inp |-> TV(dtp[k].base, Lanes(inp[k])[q])])]

\* lines 238-241
ExecAlu ==
  IF ~OperandsBound THEN Failed(Cur, "KeyError")
  ELSE IF U.dtype = NoDType THEN Failed(Cur, "AssertionError")
  ELSE IF ~all_same([k \in DOMAIN inp |-> Len(Lanes(inp[k]))])
       THEN Failed(Typed, "AssertionError")
  ELSE IF ~(all_same(<<U.dtype>> \o dtp) \/ U.arg.s \in {"CMPEQ", "CMPLT", "WHERE"})
       THEN Failed(Typed, "AssertionError")
  ELSE IF inp = <<>> THEN Emit(Typed, Alloc(heap, <<>>).heap, Alloc(heap, <<>>).ref)
  ELSE LET r == Gather(AluLanes)
       IN IF ~r.ok THEN Failed(Typed, r.err)
          ELSE LET a == Alloc(heap, r.v)
               IN Emit(Typed, a.heap, a.ref)

Alu == Fetch({"ALU"}) /\ Commit(ExecAlu)

----------------------------------------------------------------------------
(* WMMA, lines 204-237 *)

\* len(flatten(x))
FlatLen(x) == SumSeq([k \in DOMAIN x |-> Len(x[k])])

\* lines 223-224
metal_a_b_elem(x, ii, jj, goff) ==
  Ok(x[(ii % 2) + 1][goff + ((ii \div 2) % 2) + (jj % 4) * 2 + (ii \div 4) * 8
                     + (jj \div 4) * 16 + 1])

\* lines 225-226
metal_c_map(lane, elem) ==
  <<elem + ((lane % 2) * 2) + ((lane \div 8) % 2) * 4,
    ((lane \div 2) % 4) + (lane \div 16) * 4>>

\* lines 229-231
hip_a_elem(x, ii, jj, goff) ==
  IF x[ii + 1][goff + jj + 1] # x[ii + 1][goff + jj + 16 + 1]
  THEN Raise("AssertionError")
  ELSE Ok(x[ii + 1][goff + jj + 1])

\* line 233 without the transposition
hip_b_elem_untransposed(x, ii, jj, goff) == hip_a_elem(x, ii, jj, goff)

\* lines 232-233
hip_b_elem(x, ii, jj, goff) == hip_a_elem(x, jj, ii, goff)

\* line 234
hip_c_map(lane, elem) == <<lane % 16, (lane \div 16) + elem * 2>>

\* arg.startswith('__metal_wmma')
MetalTags == {"__metal_wmma"}
HipTags == {"__builtin_amdgcn_wmma_f32_16x16x16_f16_w32", "__hip_wmma_f16_f16"}

\* the a_elem, b_elem and c_map lines 227 and 235 hand to wmma_helper
a_elem_of(tag, x, ii, jj, goff) ==
  IF tag \in MetalTags THEN metal_a_b_elem(x, ii, jj, goff)
  ELSE hip_a_elem(x, ii, jj, goff)

b_elem_of(tag, x, ii, jj, goff) ==
  IF tag \in MetalTags THEN metal_a_b_elem(x, ii, jj, goff)
  ELSE hip_b_elem(x, ii, jj, goff)

c_map_of(tag, lane, elem) ==
  IF tag \in MetalTags THEN metal_c_map(lane, elem) ELSE hip_c_map(lane, elem)

\* lines 206-220 with the functions of the layout tag names: a_elem and b_elem
\* give a value or fail their assertion; inp[0], inp[1], inp[2] are read from
\* the Value Table as the source does
wmma_helper(WARP_THREADS, K, NUM_A, NUM_B, NUM_C, tag) ==
  LET a_elem(x, ii, jj, g) == a_elem_of(tag, x, ii, jj, g)
      b_elem(x, ii, jj, g) == b_elem_of(tag, x, ii, jj, g)
      c_map(lane, elem) == c_map_of(tag, lane, elem)
      A == Rows(inp[1])
      B == Rows(inp[2])
      C == Rows(inp[3])
      goff(l) == ((l - 1) \div WARP_THREADS) * WARP_THREADS
      lane_id(l) == (l - 1) % WARP_THREADS
      a(l, e, k) == a_elem(A, k, c_map(lane_id(l), e)[2], goff(l))
      b(l, e, k) == b_elem(B, c_map(lane_id(l), e)[1], k, goff(l))
  IN IF Len(A) # NUM_A \/ Len(B) # NUM_B \/ Len(C) # NUM_C
     THEN Raise("AssertionError")
     ELSE IF \/ FlatLen(A) # NUM_A * warp_size
             \/ FlatLen(B) # NUM_B * warp_size
             \/ FlatLen(C) # NUM_C * warp_size
     THEN Raise("AssertionError")
     ELSE IF ~(warp_size > 0 /\ warp_size % WARP_THREADS = 0)
     THEN Raise("AssertionError")
     ELSE IF \E l \in 1..warp_size, e \in 0..(NUM_C - 1), k \in 0..(K - 1) :
               ~a(l, e, k).ok \/ ~b(l, e, k).ok
     THEN Raise("AssertionError")
     ELSE Ok([e \in 1..NUM_C |->
               [l \in 1..warp_size |->
                  C[e][l] + SumSeq([k \in 1..K |->
                               a(l, e - 1, k - 1).v * b(l, e - 1, k - 1).v])]])

\* lines 222-237
ExecWmma ==
  IF ~OperandsBound THEN Failed(Cur, "KeyError")
  ELSE IF U.dtype = NoDType THEN Failed(Cur, "AssertionError")
  ELSE IF U.arg.s \notin MetalTags \cup HipTags THEN Failed(Typed, "Exception")
  ELSE LET r == IF U.arg.s \in MetalTags
                THEN wmma_helper(32, 8, 2, 2, 2, U.arg.s)
                ELSE wmma_helper(32, 16, 16, 16, 8, U.arg.s)
       IN IF ~r.ok THEN Failed(Typed, r.err)
          ELSE LET a == AllocRows(heap, r.v)
               IN Emit(Typed, a.heap, a.ref)

Wmma == Fetch({"WMMA"}) /\ Commit(ExecWmma)

----------------------------------------------------------------------------
(* The for loop over idxs, lines 106-112 and 244 *)

\* at the head of the for loop: the call has begun, or the while loop has ended
AtForHead == pc = "call" \/ (pc = "run" /\ i >= Len(uops))

\* the tables of the iteration before carried into the next
StaleTables == [ul |-> ul, dl |-> dl, loop_ends |-> loop_ends]

\* lines 107-111: what an iteration starts from
FreshTables == [ul |-> <<>>, dl |-> <<>>, loop_ends |-> <<>>]

\* lines 106-111: the next idxs; the lists of the iteration before are dropped
\* with the Value Table, the only thing that referred to them
ForIdxs ==
  /\ AtForHead
  /\ gi < Len(AllIdxs)
  /\ idxs' = AllIdxs[gi + 1]
  /\ gi' = gi + 1
  /\ ul' = FreshTables.ul /\ dl' = FreshTables.dl
  /\ loop_ends' = FreshTables.loop_ends
  /\ heap' = IF DOMAIN FreshTables.ul = {} THEN <<>> ELSE heap
  /\ pbufs' = bufs
  /\ i' = 0
  /\ pc' = "run"
  /\ glog' = Append(glog, AllIdxs[gi + 1])
  /\ UNCHANGED <<uops, global_size, local_size, bufs, mem, err, xlog, wlog,
                 call, ret>>

\* line 244: the product is exhausted
Return ==
  /\ AtForHead
  /\ gi >= Len(AllIdxs)
  /\ pc' = "done"
  /\ UNCHANGED <<uops, global_size, local_size, bufs, mem, gi, idxs, ul, dl,
                 pbufs, i, loop_ends, heap, err, xlog, wlog, glog, call, ret>>

----------------------------------------------------------------------------
(* Harness for the pure functions: Init draws a call, one action applies it *)

\* the interpreter at rest, for the specifications that only call functions
IdleInterp ==
  /\ uops = <<>> /\ global_size = <<1, 1, 1>> /\ local_size = <<1, 1, 1>>
  /\ bufs = <<>> /\ mem = <<>> /\ gi = 0 /\ idxs = <<>> /\ ul = <<>>
  /\ dl = <<>> /\ pbufs = <<>> /\ i = 0 /\ loop_ends = <<>> /\ heap = <<>>
  /\ pc = "idle" /\ err = "" /\ xlog = <<>> /\ wlog = <<>> /\ glog = <<>>

NoRet == [done |-> FALSE, ok |-> FALSE, err |-> "", ty |-> "", v |-> 0, m |-> <<>>]

\* buffers of every length up to MaxBufLen, over two element values
RECURSIVE BufsOfLen(_)
BufsOfLen(n) ==
  IF n = 0 THEN {<<>>}
  ELSE {Append(b, x) : b \in BufsOfLen(n - 1), x \in {11, 12}}

HarnessBufs == UNION {BufsOfLen(n) : n \in 0..MaxBufLen}

HarnessOffsets == (0 - 2)..(MaxBufLen + 1)

MemCall(fn, m, off, v, args, j) ==
  [fn |-> fn, m |-> m, off |-> off, v |-> v, inp |-> args, j |-> j]

\* load(inp, j) on two lanes that share one buffer, gated and ungated
LoadCalls ==
  LET ms == {<<21, 22, 23>>, <<21>>, <<>>}
      offs == (0 - 1)..3
  IN {MemCall("load", <<>>, 0, 0,
              <<<<m, m>>, <<o1, o2>>, <<g1, g2>>, <<91, 92>>>>, j) :
        m \in ms, o1 \in offs, o2 \in offs, g1 \in {0, 1}, g2 \in {0, 1},
        j \in {0, 1}}
     \cup
     {MemCall("load", <<>>, 0, 0, <<<<m, m>>, <<o1, o2>>>>, j) :
        m \in ms, o1 \in offs, o2 \in offs, j \in {0, 1}}

MemCalls ==
  {MemCall("_load", m, off, 0, <<>>, 0) : m \in HarnessBufs, off \in HarnessOffsets}
  \cup
  {MemCall("_store", m, off, 77, <<>>, 0) : m \in HarnessBufs, off \in HarnessOffsets}
  \cup LoadCalls

InitMem == IdleInterp /\ call \in MemCalls /\ ret = NoRet

Call_load ==
  /\ ~ret.done /\ call.fn = "_load"
  /\ LET r == _load(call.m, call.off)
     IN ret' = [done |-> TRUE, ok |-> r.ok, err |-> r.err, ty |-> "", v |-> r.v,
                m |-> call.m]
  /\ UNCHANGED <<interp_vars, call>>

Call_store ==
  /\ ~ret.done /\ call.fn = "_store"
  /\ LET r == _store(call.m, call.off, call.v)
     IN ret' = [done |-> TRUE, ok |-> r.ok, err |-> r.err, ty |-> "", v |-> 0,
                m |-> IF r.ok THEN r.v ELSE call.m]
  /\ UNCHANGED <<interp_vars, call>>

CallLoad ==
  /\ ~ret.done /\ call.fn = "load"
  /\ LET r == load(call.inp, call.j)
     IN ret' = [done |-> TRUE, ok |-> r.ok, err |-> r.err, ty |-> "", v |-> r.v,
                m |-> <<>>]
  /\ UNCHANGED <<interp_vars, call>>

NextMem == Call_load \/ Call_store \/ CallLoad

SpecMem == InitMem /\ [][NextMem]_vars

\* exec_alu on operands of one dtype, boundary values included
AluValues(t) ==
  {MinOf(t), MinOf(t) + 1, 0 - 7, 0 - 2, 0 - 1, 0, 1, 2, 3, 7, MaxOf(t) - 1, MaxOf(t)}
    \cap MinOf(t)..MaxOf(t)

AluCall(arg, dtype, p) == [fn |-> "exec_alu", arg |-> arg, dtype |-> dtype, p |-> p]

AluDTypes == {"char", "int", "long", "uchar", "ulong"}

AluCallsOf(t) ==
  {AluCall(arg, t, <<TV(t, a), TV(t, b)>>) :
     arg \in {"DIV", "MOD", "ADD", "SUB", "MUL", "MAX", "CMPLT", "CMPEQ"},
     a \in AluValues(t), b \in AluValues(t)}
  \cup
  {AluCall("NEG", t, <<TV(t, a)>>) : a \in AluValues(t)}
  \cup
  {AluCall("WHERE", t, <<TV("bool", g), TV(t, a), TV(t, 0)>>) :
     g \in {0, 1}, a \in AluValues(t)}
  \cup
  {AluCall("MULACC", t, <<TV(t, a), TV(t, a), TV(t, c)>>) :
     a \in AluValues(t), c \in {0, 1}}

AluCalls ==
  UNION {AluCallsOf(t) : t \in AluDTypes}
  \cup
  {AluCall("RECIP", "char", <<TV("char", 1)>>),
   AluCall("ADD", "int", <<TV("int", 1), TV("uint", 2)>>),
   AluCall("ADD", "int", <<TV("char", 100), TV("int", 100)>>),
   AluCall("ADD", "bool", <<TV("bool", 1), TV("bool", 1)>>)}

InitAlu == IdleInterp /\ call \in AluCalls /\ ret = NoRet

Call_exec_alu ==
  /\ ~ret.done /\ call.fn = "exec_alu"
  /\ LET r == exec_alu(call.arg, call.dtype, call.p)
     IN ret' = [done |-> TRUE, ok |-> r.ok, err |-> r.err, ty |-> r.ty, v |-> r.v,
                m |-> <<>>]
  /\ UNCHANGED <<interp_vars, call>>

NextAlu == Call_exec_alu

SpecAlu == InitAlu /\ [][NextAlu]_vars

----------------------------------------------------------------------------
(* The runs the model starts from: a program, its sizes and its buffers    *)

\* largest component of global_size in the catalogue
MaxGlobal == 2

INT == DT("int", 1)
BOOL == DT("bool", 1)
FLOAT == DT("float", 1)
Vec(d, n) == [d EXCEPT !.count = n]

Run(prog, gs, ls, buffers) ==
  [uops |-> prog, global_size |-> gs, local_size |-> ls, mem |-> buffers]

\* a buffer of n elements holding a value no program of the catalogue stores
Untouched(n) == Repeat(99, n)

\* acc += k and out[k - start] = k for k from start to end - 1, then
\* out[MaxTrip + 1] = acc
LoopProg(start, end) ==
  << UOp("DEFINE_GLOBAL", INT, <<>>, NoArg),            \* 0
     UOp("CONST", INT, <<>>, Arg(start, "")),           \* 1
     UOp("CONST", INT, <<>>, Arg(end, "")),             \* 2
     UOp("DEFINE_ACC", INT, <<>>, Arg(0, "")),          \* 3
     UOp("LOOP", INT, <<1, 2>>, NoArg),                 \* 4
     UOp("ALU", INT, <<3, 4>>, Arg(0, "ADD")),          \* 5
     UOp("PHI", INT, <<3, 5>>, NoArg),                  \* 6
     UOp("ALU", INT, <<4, 1>>, Arg(0, "SUB")),          \* 7
     UOp("STORE", NoDType, <<0, 7, 4>>, NoArg),         \* 8
     UOp("BARRIER", NoDType, <<8>>, NoArg),             \* 9
     UOp("ENDLOOP", NoDType, <<4>>, NoArg),             \* 10
     UOp("CONST", INT, <<>>, Arg(MaxTrip + 1, "")),     \* 11
     UOp("STORE", NoDType, <<0, 11, 3>>, NoArg) >>      \* 12

LoopRuns ==
  {Run(LoopProg(start, start + n), <<1, 1, 1>>, <<2, 1, 1>>,
       <<Untouched(MaxTrip + 2)>>) :
     start \in {0 - 1, 0, 2}, n \in (0 - 1)..MaxTrip}

\* out[a * n + b] = count of body executions so far, a < m outer, b < n inner
NestedProg(m, n) ==
  << UOp("DEFINE_GLOBAL", INT, <<>>, NoArg),            \* 0
     UOp("CONST", INT, <<>>, Arg(0, "")),               \* 1
     UOp("CONST", INT, <<>>, Arg(m, "")),               \* 2
     UOp("CONST", INT, <<>>, Arg(n, "")),               \* 3
     UOp("DEFINE_ACC", INT, <<>>, Arg(0, "")),          \* 4
     UOp("LOOP", INT, <<1, 2>>, NoArg),                 \* 5
     UOp("LOOP", INT, <<1, 3>>, NoArg),                 \* 6
     UOp("CONST", INT, <<>>, Arg(1, "")),               \* 7
     UOp("ALU", INT, <<4, 7>>, Arg(0, "ADD")),          \* 8
     UOp("PHI", INT, <<4, 8>>, NoArg),                  \* 9
     UOp("ALU", INT, <<5, 3, 6>>, Arg(0, "MULACC")),    \* 10
     UOp("STORE", NoDType, <<0, 10, 9>>, NoArg),        \* 11
     UOp("ENDLOOP", NoDType, <<6>>, NoArg),             \* 12
     UOp("ENDLOOP", NoDType, <<5>>, NoArg) >>           \* 13

NestedRuns ==
  {Run(NestedProg(m, n), <<1, 1, 1>>, <<1, 1, 1>>,
       <<Untouched(MaxTrip * MaxTrip)>>) :
     m \in 1..MaxTrip, n \in 1..MaxTrip}

\* out[g0 + G*g1 + G*G*g2] = number of this iteration, counted in the last
\* element of out, G = MaxGlobal
SpecialProg ==
  LET G == MaxGlobal
  IN << UOp("DEFINE_GLOBAL", INT, <<>>, NoArg),         \* 0
        UOp("SPECIAL", INT, <<>>, Arg(0, "g")),         \* 1
        UOp("SPECIAL", INT, <<>>, Arg(1, "g")),         \* 2
        UOp("SPECIAL", INT, <<>>, Arg(2, "g")),         \* 3
        UOp("SPECIAL", INT, <<>>, Arg(0, "l")),         \* 4
        UOp("CONST", INT, <<>>, Arg(G, "")),            \* 5
        UOp("ALU", INT, <<3, 5, 2>>, Arg(0, "MULACC")), \* 6
        UOp("ALU", INT, <<6, 5, 1>>, Arg(0, "MULACC")), \* 7
        UOp("CONST", INT, <<>>, Arg(G * G * G, "")),    \* 8
        UOp("LOAD", INT, <<0, 8>>, NoArg),              \* 9
        UOp("CONST", INT, <<>>, Arg(1, "")),            \* 10
        UOp("ALU", INT, <<9, 10>>, Arg(0, "ADD")),      \* 11
        UOp("STORE", NoDType, <<0, 8, 11>>, NoArg),     \* 12
        UOp("STORE", NoDType, <<0, 7, 11>>, NoArg) >>   \* 13

SpecialRuns ==
  {Run(SpecialProg, <<g0, g1, g2>>, <<l0, 1, 1>>,
       <<Repeat(0, MaxGlobal * MaxGlobal * MaxGlobal + 1)>>) :
     g0 \in 1..MaxGlobal, g1 \in 1..MaxGlobal, g2 \in 0..MaxGlobal, l0 \in 1..2}

\* out[g0] = local[0] as found; local[0] = 5 + g0; out[G + g0] = local[0]
LocalProg ==
  << UOp("DEFINE_GLOBAL", INT, <<>>, NoArg),            \* 0
     UOp("DEFINE_LOCAL", INT, <<>>, Arg(2, "temp")),    \* 1
     UOp("CONST", INT, <<>>, Arg(0, "")),               \* 2
     UOp("LOAD", INT, <<1, 2>>, NoArg),                 \* 3
     UOp("SPECIAL", INT, <<>>, Arg(0, "g")),            \* 4
     UOp("STORE", NoDType, <<0, 4, 3>>, NoArg),         \* 5
     UOp("CONST", INT, <<>>, Arg(5, "")),               \* 6
     UOp("ALU", INT, <<6, 4>>, Arg(0, "ADD")),          \* 7
     UOp("STORE", NoDType, <<1, 2, 7>>, NoArg),         \* 8
     UOp("BARRIER", NoDType, <<8>>, NoArg),             \* 9
     UOp("LOAD", INT, <<1, 2, 9>>, NoArg),              \* 10
     UOp("CONST", INT, <<>>, Arg(MaxGlobal + 1, "")),   \* 11
     UOp("ALU", INT, <<4, 11>>, Arg(0, "ADD")),         \* 12
     UOp("STORE", NoDType, <<0, 12, 10>>, NoArg) >>     \* 13

LocalRuns ==
  {Run(LocalProg, <<g0, 1, 1>>, <<l0, 1, 1>>,
       <<Untouched(2 * MaxGlobal + 2)>>) :
     g0 \in 1..(MaxGlobal + 1), l0 \in 1..2}

\* the elements of an h by w image: 100 * (channel + 1) + 10 * y + x
ImageBuf(h, w) ==
  [q \in 1..(h * w * 4) |->
     100 * (((q - 1) % 4) + 1) + 10 * ((q - 1) \div (w * 4)) + (((q - 1) \div 4) % w)]

\* lane l loads the 4 channels at (x + l, y) of a 2 by 2 image, stores them
\* to out[4 * l ..], then stores them at the same place of a second image
ImageProg(x, y) ==
  << UOp("DEFINE_GLOBAL", ImageDT(2, 2), <<>>, NoArg),  \* 0
     UOp("DEFINE_GLOBAL", FLOAT, <<>>, NoArg),          \* 1
     UOp("DEFINE_GLOBAL", ImageDT(2, 2), <<>>, NoArg),  \* 2
     UOp("SPECIAL", INT, <<>>, Arg(0, "l")),            \* 3
     UOp("CONST", INT, <<>>, Arg(x, "")),               \* 4
     UOp("CONST", INT, <<>>, Arg(y, "")),               \* 5
     UOp("ALU", INT, <<3, 4>>, Arg(0, "ADD")),          \* 6
     UOp("CAST", Vec(INT, 2), <<6, 5>>, NoArg),         \* 7
     UOp("LOAD", Vec(FLOAT, 4), <<0, 7>>, NoArg),       \* 8
     UOp("CONST", INT, <<>>, Arg(4, "")),               \* 9
     UOp("ALU", INT, <<3, 9>>, Arg(0, "MUL")),          \* 10
     UOp("STORE", NoDType, <<1, 10, 8>>, NoArg),        \* 11
     UOp("STORE", NoDType, <<2, 7, 8>>, NoArg) >>       \* 12

ImageRuns ==
  {Run(ImageProg(x, y), <<1, 1, 1>>, <<2, 1, 1>>,
       <<ImageBuf(2, 2), Untouched(8), Untouched(16)>>) :
     x \in (0 - 2)..2, y \in (0 - 1)..2}

\* two lanes exchange values through a buffer: lane l reads a[l], stores
\* 10 * g0 + l + 1 to a[1 - l], reads a[l] again and stores that to b[l]
SharedProg ==
  << UOp("DEFINE_GLOBAL", INT, <<>>, NoArg),            \* 0
     UOp("DEFINE_GLOBAL", INT, <<>>, NoArg),            \* 1
     UOp("SPECIAL", INT, <<>>, Arg(0, "l")),            \* 2
     UOp("SPECIAL", INT, <<>>, Arg(0, "g")),            \* 3
     UOp("CONST", INT, <<>>, Arg(1, "")),               \* 4
     UOp("ALU", INT, <<4, 2>>, Arg(0, "SUB")),          \* 5
     UOp("LOAD", INT, <<0, 2>>, NoArg),                 \* 6
     UOp("CONST", INT, <<>>, Arg(10, "")),              \* 7
     UOp("ALU", INT, <<3, 7, 2>>, Arg(0, "MULACC")),    \* 8
     UOp("ALU", INT, <<8, 4>>, Arg(0, "ADD")),          \* 9
     UOp("STORE", NoDType, <<0, 5, 9>>, NoArg),         \* 10
     UOp("LOAD", INT, <<0, 2>>, NoArg),                 \* 11
     UOp("STORE", NoDType, <<1, 2, 11>>, NoArg) >>      \* 12

SharedRuns ==
  {Run(SharedProg, <<g0, 1, 1>>, <<2, 1, 1>>, <<<<0, 0>>, Untouched(2)>>) :
     g0 \in 1..(MaxGlobal + 1)}

\* lane l loads in[l + c] if l < 1 and else takes the default 42, and stores
\* it to out[l] between an IF and its ENDIF
GatedProg(c) ==
  << UOp("DEFINE_GLOBAL", INT, <<>>, NoArg),            \* 0
     UOp("SPECIAL", INT, <<>>, Arg(0, "l")),            \* 1
     UOp("CONST", INT, <<>>, Arg(c, "")),               \* 2
     UOp("ALU", INT, <<1, 2>>, Arg(0, "ADD")),          \* 3
     UOp("CONST", INT, <<>>, Arg(1, "")),               \* 4
     UOp("ALU", BOOL, <<1, 4>>, Arg(0, "CMPLT")),       \* 5
     UOp("CONST", INT, <<>>, Arg(42, "")),              \* 6
     UOp("LOAD", INT, <<0, 3, 5, 6>>, NoArg),           \* 7
     UOp("DEFINE_GLOBAL", INT, <<>>, NoArg),            \* 8
     UOp("IF", NoDType, <<5>>, NoArg),                  \* 9
     UOp("STORE", NoDType, <<8, 1, 7>>, NoArg),         \* 10
     UOp("ENDIF", NoDType, <<9>>, NoArg) >>             \* 11

GatedRuns ==
  {Run(GatedProg(c), <<1, 1, 1>>, <<2, 1, 1>>,
       <<<<31, 32>>, Untouched(2)>>) : c \in (0 - 1)..2}

\* vectors: out[2 * l + j] = acc[j] after acc = (7, 7), read back as a vector
VecProg(big) ==
  << UOp("DEFINE_GLOBAL", INT, <<>>, NoArg),            \* 0
     UOp("CONST", Vec(INT, 2), <<>>, Arg(7, "")),       \* 1
     UOp("GEP", INT, <<1>>, Arg(1, "")),                \* 2
     UOp("DEFINE_ACC", Vec(INT, 2), <<>>, Arg(0, "")),  \* 3
     UOp("PHI", Vec(INT, 2), <<3, 1>>, NoArg),          \* 4
     UOp("SPECIAL", INT, <<>>, Arg(0, "l")),            \* 5
     UOp("CONST", INT, <<>>, Arg(2, "")),               \* 6
     UOp("ALU", INT, <<5, 6>>, Arg(0, "MUL")),          \* 7
     UOp("STORE", NoDType, <<0, 7, 4>>, NoArg),         \* 8
     UOp("LOAD", Vec(INT, 2), <<0, 7>>, NoArg),         \* 9
     UOp("CONST", INT, <<>>, Arg(big, "")),             \* 10
     UOp("CAST", DT("char", 1), <<10>>, NoArg),         \* 11
     UOp("GEP", INT, <<9>>, Arg(0, "")),                \* 12
     UOp("ALU", INT, <<12, 2>>, Arg(0, "DIV")),         \* 13
     UOp("STORE", NoDType, <<0, 7, 13>>, NoArg) >>      \* 14

VecRuns ==
  {Run(VecProg(big), <<1, 1, 1>>, <<ls, 1, 1>>, <<Untouched(n)>>) :
     big \in {100, 300}, ls \in 1..2, n \in {2, 4}}

\* one WMMA on accumulators: every element of A is a, of B is b, of C is 3
WmmaConstProg(tag, a, b) ==
  << UOp("DEFINE_ACC", Vec(FLOAT, 2), <<>>, Arg(a, "")),     \* 0
     UOp("DEFINE_ACC", Vec(FLOAT, 2), <<>>, Arg(b, "")),     \* 1
     UOp("DEFINE_ACC", Vec(FLOAT, 2), <<>>, Arg(3, "")),     \* 2
     UOp("WMMA", Vec(FLOAT, 2), <<0, 1, 2>>, Arg(0, tag)) >> \* 3

WmmaConstRuns ==
  {Run(WmmaConstProg(tag, a, 2), <<1, 1, 1>>, <<ls, 1, 1>>, <<>>) :
     tag \in {"__metal_wmma", "__unknown_wmma"}, a \in {1}, ls \in {32, 2}}

\* programs that fail: a SPECIAL that is neither global nor local, a division
\* by zero, an operand that was never computed, a buffer that was not passed
FailProgs ==
  { << UOp("SPECIAL", INT, <<>>, Arg(0, "x")) >>,
    << UOp("CONST", INT, <<>>, Arg(0, "")),
       UOp("ALU", INT, <<0, 0>>, Arg(0, "DIV")),
       UOp("CONST", INT, <<>>, Arg(1, "")) >>,
    << UOp("CONST", INT, <<>>, Arg(0, "")),
       UOp("ALU", INT, <<0, 2>>, Arg(0, "ADD")),
       UOp("CONST", INT, <<>>, Arg(1, "")) >>,
    << UOp("DEFINE_GLOBAL", INT, <<>>, NoArg) >>,
    << UOp("CONST", NoDType, <<>>, Arg(1, "")) >> }

FailRuns == {Run(p, <<2, 1, 1>>, <<1, 1, 1>>, <<>>) : p \in FailProgs}

Catalogue ==
  UNION {LoopRuns, NestedRuns, SpecialRuns, LocalRuns, ImageRuns, GatedRuns,
         VecRuns, WmmaConstRuns, FailRuns, SharedRuns}

\* the call of run r has begun
Start(r) ==
  /\ uops = r.uops /\ global_size = r.global_size /\ local_size = r.local_size
  /\ mem = r.mem /\ bufs = [k \in 1..Len(r.mem) |-> k]
  /\ gi = 0 /\ idxs = <<>> /\ ul = <<>> /\ dl = <<>> /\ pbufs = <<>> /\ i = 0
  /\ loop_ends = <<>> /\ heap = <<>> /\ pc = "call" /\ err = ""
  /\ xlog = <<>> /\ wlog = <<>> /\ glog = <<>>
  /\ call = [fn |-> ""] /\ ret = NoRet

Init == \E r \in Catalogue : Start(r)

Next ==
  \/ ForIdxs \/ Return
  \/ Store \/ Endloop \/ NoOp
  \/ DefineGlobal \/ DefineLocal \/ Special \/ Const \/ DefineAcc
  \/ Loop \/ Cast \/ Load \/ Phi \/ Gep \/ Wmma \/ Alu

Spec == Init /\ [][Next]_vars

----------------------------------------------------------------------------
(* Claims about the memory access layer, under SpecMem *)

InRange(m, off) == 0 <= off /\ off < Len(m)

\* C3: a linear _load or _store at an offset below 0 or at or past the length
\* of the buffer fails with IndexError, and the failing store leaves the buffer
\* as it was; at an offset inside the buffer the load returns that element and
\* the store changes exactly that element to the stored value.
C3_LinearBounds ==
  /\ (ret.done /\ call.fn = "_load") =>
       IF InRange(call.m, call.off)
       THEN ret.ok /\ ret.v = call.m[call.off + 1]
       ELSE ~ret.ok /\ ret.err = "IndexError"
  /\ (ret.done /\ call.fn = "_store") =>
       IF InRange(call.m, call.off)
       THEN /\ ret.ok
            /\ Len(ret.m) = Len(call.m)
            /\ \A k \in 1..Len(call.m) :
                 ret.m[k] = IF k = call.off + 1 THEN call.v ELSE call.m[k]
       ELSE ~ret.ok /\ ret.err = "IndexError" /\ ret.m = call.m

\* a store one past the end of a buffer that has elements has failed, and a
\* load before the start of it too
C3_Witness ==
  /\ ret.done /\ ~ret.ok
  /\ Len(call.m) > 0
  /\ \/ call.fn = "_store" /\ call.off = Len(call.m)
     \/ call.fn = "_load" /\ call.off = 0 - 1

Gated(c) == Len(c.inp) = 4

\* the lanes of a load call that read memory
ReadingLanes(c) ==
  {k \in 1..Len(c.inp[1]) : Gated(c) => c.inp[3][k] # 0}

\* C5: in a gated load a lane whose gate is false gets its default, whatever
\* its offset; a lane whose gate is true, and every lane of an ungated load,
\* gets the element at its offset, and the load fails with IndexError exactly
\* when such a lane's offset is out of range.
C5_GatedLoad ==
  (ret.done /\ call.fn = "load") =>
    LET bad == {k \in ReadingLanes(call) :
                  ~InRange(call.inp[1][k], call.inp[2][k] + call.j)}
    IN IF bad # {}
       THEN ~ret.ok /\ ret.err = "IndexError"
       ELSE /\ ret.ok
            /\ Len(ret.v) = Len(call.inp[1])
            /\ \A k \in 1..Len(call.inp[1]) :
                 ret.v[k] = IF k \in ReadingLanes(call)
                            THEN call.inp[1][k][call.inp[2][k] + call.j + 1]
                            ELSE call.inp[4][k]

\* a gated load has returned with one lane read from memory and the other,
\* gated off at an offset outside the buffer, given its default
C5_Witness ==
  /\ ret.done /\ ret.ok /\ call.fn = "load" /\ Gated(call)
  /\ call.inp[3] = <<1, 0>>
  /\ ~InRange(call.inp[1][2], call.inp[2][2] + call.j)
  /\ ret.v[2] = call.inp[4][2]

----------------------------------------------------------------------------
(* Claims about exec_alu, under SpecAlu *)

SignedDiv(c) ==
  /\ c.fn = "exec_alu" /\ c.arg = "DIV" /\ c.dtype \in SignedBases
  /\ c.p[1].ty = c.dtype /\ c.p[2].ty = c.dtype

\* q is a / b rounded toward negative infinity
IsFloorQuotient(q, a, b) ==
  IF b > 0 THEN q * b <= a /\ a < q * b + b
  ELSE q * b >= a /\ a > q * b + b

\* the quotients worth trying: |a / b| <= |a|
Quotients(a) == (0 - (IF a < 0 THEN 0 - a ELSE a) - 1)..((IF a < 0 THEN 0 - a ELSE a) + 1)

\* C7 as stated: DIV on two signed operands of one dtype returns floor(a / b)
\* whenever b # 0, and fails with ValueError whenever b = 0.
C7_Original ==
  (ret.done /\ SignedDiv(call)) =>
    LET a == call.p[1].v
        b == call.p[2].v
    IN IF b = 0 THEN ~ret.ok /\ ret.err = "ValueError"
       ELSE ret.ok /\ IsFloorQuotient(ret.v, a, b)

\* C7, amended: DIV on two signed operands of one dtype fails with ValueError
\* whenever b = 0; whenever b # 0 it returns floor(a / b) if that quotient is
\* representable in the 64 bit signed type, and fails with OverflowError if it
\* is not (the minimum of the 64 bit type divided by -1).
C7_FloorDiv ==
  (ret.done /\ SignedDiv(call)) =>
    LET a == call.p[1].v
        b == call.p[2].v
    IN IF b = 0 THEN ~ret.ok /\ ret.err = "ValueError"
       ELSE \E q \in Quotients(a) :
              /\ IsFloorQuotient(q, a, b)
              /\ IF check_bounds(q, "long")
                 THEN ret.ok /\ ret.v = q
                 ELSE ~ret.ok /\ ret.err = "OverflowError"

\* a division of a negative by a positive number that is not exact has
\* returned, and so has one whose quotient only fits the upgraded dtype
C7_Witness ==
  /\ ret.done /\ ret.ok /\ SignedDiv(call)
  /\ \/ call.p[1].v = 0 - 7 /\ call.p[2].v = 2 /\ ret.v = 0 - 4
     \/ call.dtype = "char" /\ call.p[1].v = 0 - 128 /\ call.p[2].v = 0 - 1
        /\ ret.v = 128 /\ ret.ty = "long"

----------------------------------------------------------------------------
(* Tensor core programs: every lane loads its elements of A, B and C from
   buffers packed in the layout of the hardware, and stores those of the
   result *)

\* the matrices tried per layout
MaxPat == 3

\* n by n matrices that no transposition leaves as they are
MatA(n, p) == [r \in 0..(n - 1) |-> [c \in 0..(n - 1) |-> ((r * p + 2 * c) % 5) - 2]]
MatB(n, p) == [r \in 0..(n - 1) |-> [c \in 0..(n - 1) |-> ((3 * r + c * p) % 4) - 1]]
MatC(n) == [r \in 0..(n - 1) |-> [c \in 0..(n - 1) |-> 20 * r + c]]

\* the element of an 8 by 8 matrix that element e of lane holds, as <<row,
\* column>>: the simdgroup layout, 2 elements per lane
MetalRowCol(lane, e) ==
  <<((lane \div 2) % 4) + 4 * (lane \div 16),
    e + 2 * (lane % 2) + 4 * ((lane \div 8) % 2)>>

\* the element of the 16 by 16 result that element e of lane holds: 8
\* elements per lane
HipRowCol(lane, e) == <<(lane \div 16) + 2 * e, lane % 16>>

\* lane l keeps its n elements at l * n .. l * n + n - 1 of the buffer
Packed(n, elem(_, _)) ==
  [q \in 1..(32 * n) |-> elem((q - 1) \div n, (q - 1) % n)]

PackMetal(M) ==
  LET elem(lane, e) == M[MetalRowCol(lane, e)[1]][MetalRowCol(lane, e)[2]]
  IN Packed(2, elem)

\* lane holds row lane % 16 of A; the upper lanes one more where dup is FALSE
PackHipA(M, dup) ==
  LET elem(lane, e) == M[lane % 16][e] + (IF dup \/ lane < 16 THEN 0 ELSE 1)
  IN Packed(16, elem)

\* lane holds column lane % 16 of B
PackHipB(M) ==
  LET elem(lane, e) == M[e][lane % 16]
  IN Packed(16, elem)

PackHipC(M) ==
  LET elem(lane, e) == M[HipRowCol(lane, e)[1]][HipRowCol(lane, e)[2]]
  IN Packed(8, elem)

WmmaProg(tag, NUM_A, NUM_C) ==
  << UOp("DEFINE_GLOBAL", FLOAT, <<>>, NoArg),                 \* 0
     UOp("DEFINE_GLOBAL", FLOAT, <<>>, NoArg),                 \* 1
     UOp("DEFINE_GLOBAL", FLOAT, <<>>, NoArg),                 \* 2
     UOp("DEFINE_GLOBAL", FLOAT, <<>>, NoArg),                 \* 3
     UOp("SPECIAL", INT, <<>>, Arg(0, "l")),                   \* 4
     UOp("CONST", INT, <<>>, Arg(NUM_A, "")),                  \* 5
     UOp("ALU", INT, <<4, 5>>, Arg(0, "MUL")),                 \* 6
     UOp("CONST", INT, <<>>, Arg(NUM_C, "")),                  \* 7
     UOp("ALU", INT, <<4, 7>>, Arg(0, "MUL")),                 \* 8
     UOp("LOAD", Vec(FLOAT, NUM_A), <<0, 6>>, NoArg),          \* 9
     UOp("LOAD", Vec(FLOAT, NUM_A), <<1, 6>>, NoArg),          \* 10
     UOp("LOAD", Vec(FLOAT, NUM_C), <<2, 8>>, NoArg),          \* 11
     UOp("WMMA", Vec(FLOAT, NUM_C), <<9, 10, 11>>, Arg(0, tag)), \* 12
     UOp("STORE", NoDType, <<3, 8, 12>>, NoArg) >>             \* 13

\* a run and the matrices its buffers were packed from
WmmaCall(tag, n, A, B, C, dup) ==
  [fn |-> "wmma", tag |-> tag, n |-> n, A |-> A, B |-> B, C |-> C, dup |-> dup]

MetalWmmaRuns ==
  {[run |-> Run(WmmaProg("__metal_wmma", 2, 2), <<1, 1, 1>>, <<32, 1, 1>>,
                << PackMetal(MatA(8, pa)), PackMetal(MatB(8, pb)),
                   PackMetal(MatC(8)), Untouched(64) >>),
    call |-> WmmaCall("__metal_wmma", 8, MatA(8, pa), MatB(8, pb), MatC(8), TRUE)] :
     pa \in 1..MaxPat, pb \in 1..MaxPat}

HipWmmaRuns ==
  {[run |-> Run(WmmaProg(tag, 16, 8), <<1, 1, 1>>, <<32, 1, 1>>,
                << PackHipA(MatA(16, pa), dup), PackHipB(MatB(16, pb)),
                   PackHipC(MatC(16)), Untouched(256) >>),
    call |-> WmmaCall(tag, 16, MatA(16, pa), MatB(16, pb), MatC(16), dup)] :
     tag \in HipTags, pa \in 1..MaxPat, pb \in {1, MaxPat}, dup \in BOOLEAN}

WmmaRuns == MetalWmmaRuns \cup HipWmmaRuns

InitWmma ==
  \E w \in WmmaRuns :
    /\ uops = w.run.uops /\ global_size = w.run.global_size
    /\ local_size = w.run.local_size
    /\ mem = w.run.mem /\ bufs = [k \in 1..Len(w.run.mem) |-> k]
    /\ gi = 0 /\ idxs = <<>> /\ ul = <<>> /\ dl = <<>> /\ pbufs = <<>> /\ i = 0
    /\ loop_ends = <<>> /\ heap = <<>> /\ pc = "call" /\ err = ""
    /\ xlog = <<>> /\ wlog = <<>> /\ glog = <<>>
    /\ call = w.call /\ ret = NoRet

NextWmma ==
  \/ ForIdxs \/ Return
  \/ DefineGlobal \/ Special \/ Const \/ Alu \/ Load \/ Wmma \/ Store

SpecWmma == InitWmma /\ [][NextWmma]_vars

----------------------------------------------------------------------------
(* Loops, read off the record xlog of the instructions executed *)

LoopPositions == {L \in 0..(Len(uops) - 1) : uops[L + 1].uop = "LOOP"}

\* the ENDLOOP paired with the LOOP at L
EndOf(L) ==
  CHOOSE E \in 0..(Len(uops) - 1) :
    uops[E + 1].uop = "ENDLOOP" /\ uops[E + 1].vin = <<L>>

\* the constant the k-th operand of the LOOP at L names
LoopConst(L, k) == uops[uops[L + 1].vin[k] + 1].arg.n
TripCount(L) == LoopConst(L, 2) - LoopConst(L, 1)

\* the executions of the LOOP at L that enter it: its variable is not bound
Entries(L) ==
  {a \in DOMAIN xlog : xlog[a].pos = L /\ L \notin DOMAIN xlog[a].loops}

\* the first instruction executed after the loop entered at a was left, or
\* Len(xlog) + 1 where none has been
ExitOf(L, a) ==
  LET later == {b \in (a + 1)..Len(xlog) : L \notin DOMAIN xlog[b].loops}
  IN IF later = {} THEN Len(xlog) + 1
     ELSE CHOOSE b \in later : \A c \in later : b <= c

\* the executions of position p inside the loop entered at a, in order
RECURSIVE Ascending(_)
Ascending(S) ==
  IF S = {} THEN <<>>
  ELSE LET least == CHOOSE b \in S : \A c \in S : b <= c
       IN <<least>> \o Ascending(S \ {least})

ExecsIn(L, a, p) ==
  Ascending({b \in (a + 1)..(ExitOf(L, a) - 1) : xlog[b].pos = p})

\* the loop entered at a has been left
Exited(L, a) ==
  \/ ExitOf(L, a) <= Len(xlog)
  \/ pc # "fail" /\ L \notin DOMAIN ul

\* where the interpreter went when it left the loop entered at a
AfterLoop(L, a) ==
  IF ExitOf(L, a) <= Len(xlog) THEN xlog[ExitOf(L, a)].pos ELSE i

\* the positions of the body of the loop at L outside any loop nested in it
DirectBody(L) ==
  {p \in (L + 1)..EndOf(L) :
     ~\E M \in LoopPositions : L < M /\ M <= p /\ p <= EndOf(M)}

----------------------------------------------------------------------------
(* Image loads and stores *)

\* the positions of the executed instructions of kind kind whose first
\* operand is an image buffer
ImageOps(kind) ==
  {p \in 0..(Len(uops) - 1) :
     /\ uops[p + 1].uop = kind
     /\ \E b \in DOMAIN xlog : xlog[b].pos = p
     /\ Has(dl, uops[p + 1].vin[1]) /\ IsImage(dl[uops[p + 1].vin[1]])}

\* the image, the buffer handles and the coordinates of lane k for the
\* instruction at p
ShapeAt(p) == dl[uops[p + 1].vin[1]].shape
HandleAt(p, k) == Lanes(ul[uops[p + 1].vin[1]])[k]
XAt(p, k) == Rows(ul[uops[p + 1].vin[2]])[1][k]
YAt(p, k) == Rows(ul[uops[p + 1].vin[2]])[2][k]
InImage(p, k) ==
  /\ 0 <= XAt(p, k) /\ XAt(p, k) < ShapeAt(p)[2]
  /\ 0 <= YAt(p, k) /\ YAt(p, k) < ShapeAt(p)[1]
TexelOffset(p, k, ch) == XAt(p, k) * 4 + YAt(p, k) * ShapeAt(p)[2] * 4 + ch

\* the element stores the STORE at p has made
StoresAt(p) ==
  {[lane |-> wlog[q].lane, m |-> wlog[q].m, off |-> wlog[q].off, v |-> wlog[q].v] :
     q \in {r \in DOMAIN wlog : wlog[r].pos = p}}

WarpLanes == 1..warp_size

\* C4: an image LOAD never fails on a coordinate outside the image and
\* yields 0 in all four channels of that lane, and the elements at
\* x*4 + y*width*4 + channel for a lane inside; an image STORE with a lane
\* outside the image fails with an assertion and stores nothing for that
\* lane, and with every lane inside stores the four channels at those offsets
C4_ImageBounds ==
  /\ \A p \in ImageOps("LOAD") :
       /\ Has(ul, p)
       /\ \A k \in WarpLanes : \A ch \in 0..3 :
            Rows(ul[p])[ch + 1][k] =
              IF InImage(p, k) THEN mem[HandleAt(p, k)][TexelOffset(p, k, ch) + 1]
              ELSE 0
  /\ \A p \in ImageOps("STORE") :
       IF \E k \in WarpLanes : ~InImage(p, k)
       THEN /\ pc = "fail" /\ err = "AssertionError" /\ i = p
            /\ \A w \in StoresAt(p) : InImage(p, w.lane)
       ELSE /\ pc # "fail"
            /\ StoresAt(p) =
                 {[lane |-> k, m |-> HandleAt(p, k), off |-> TexelOffset(p, k, ch),
                   v |-> Rows(ul[uops[p + 1].vin[3]])[ch + 1][k]] :
                    k \in WarpLanes, ch \in 0..3}

\* the first lane is inside the image and the second is outside: the load
\* gave the second lane zeros, and the store of the same vector failed
C4_Witness ==
  /\ pc = "fail" /\ err = "AssertionError"
  /\ \E p \in ImageOps("LOAD") :
       /\ InImage(p, 1) /\ ~InImage(p, 2)
       /\ \A ch \in 0..3 : Rows(ul[p])[ch + 1][1] # 0 /\ Rows(ul[p])[ch + 1][2] = 0
  /\ \E p \in ImageOps("STORE") : i = p /\ StoresAt(p) # {}

----------------------------------------------------------------------------
(* The iteration over global_size *)

\* the points of the index space, as (dimension 0, dimension 1, dimension 2)
GlobalPoints ==
  {<<c0, c1, c2>> : c0 \in 0..(global_size[1] - 1),
                    c1 \in 0..(global_size[2] - 1),
                    c2 \in 0..(global_size[3] - 1)}

\* the place of a point in the order with dimension 2 the slowest, from 1
VisitNumber(c) == 1 + c[1] + global_size[1] * (c[2] + global_size[2] * c[3])

\* the point of the iteration under way, as the for loop holds it in idxs:
\* the components of idxs are dimensions 2, 1, 0
PointOfIdxs == <<idxs[3], idxs[2], idxs[1]>>

\* the SPECIAL instructions that read a global coordinate and have executed
\* in the iteration under way
GlobalSpecials ==
  {p \in DOMAIN ul : uops[p + 1].uop = "SPECIAL" /\ uops[p + 1].arg.s = "g"}

\* C8: the program runs once for each point of the product of the ranges
\* [0, global_size[d]), one point after the other with dimension 2 the
\* slowest, and a SPECIAL g for dimension d yields on every lane the
\* coordinate of the point in dimension d, which is in [0, global_size[d])
C8_GlobalOrder ==
  /\ gi = Len(glog) /\ gi <= Cardinality(GlobalPoints)
  /\ \A n \in DOMAIN glog :
       /\ <<glog[n][3], glog[n][2], glog[n][1]>> \in GlobalPoints
       /\ VisitNumber(<<glog[n][3], glog[n][2], glog[n][1]>>) = n
  /\ pc = "done" => gi = Cardinality(GlobalPoints)
  /\ \A b \in DOMAIN xlog :
       b > 1 /\ xlog[b].it # xlog[b - 1].it =>
         xlog[b].it = xlog[b - 1].it + 1 /\ xlog[b].pos = 0
  /\ \A p \in GlobalSpecials :
       LET d == uops[p + 1].arg.n
       IN /\ Lanes(ul[p]) = Repeat(PointOfIdxs[d + 1], warp_size)
          /\ 0 <= PointOfIdxs[d + 1] /\ PointOfIdxs[d + 1] < global_size[d + 1]
  /\ (pc = "done" /\ uops = SpecialProg) =>
       /\ \A c \in GlobalPoints :
            mem[1][c[1] + MaxGlobal * c[2] + MaxGlobal * MaxGlobal * c[3] + 1]
              = VisitNumber(c)
       /\ mem[1][MaxGlobal * MaxGlobal * MaxGlobal + 1] = Cardinality(GlobalPoints)

\* the program that numbers its iterations by the coordinates SPECIAL gives
\* it has run over 2 by 1 by 2 points: (1, 0, 0) was the second, (0, 0, 1)
\* the third
C8_Witness ==
  /\ pc = "done" /\ uops = SpecialProg /\ global_size = <<2, 1, 2>>
  /\ local_size[1] = 2
  /\ mem[1][2] = 2
  /\ mem[1][MaxGlobal * MaxGlobal + 1] = 3
  /\ Len(glog) = 4

----------------------------------------------------------------------------
(* What an iteration starts from *)

\* the instructions the iteration under way has executed
ExecutedNow == {b \in DOMAIN xlog : xlog[b].it = gi}

\* the local buffers of the iteration under way, by handle
LocalHandles ==
  {Lanes(ul[p])[1] : p \in {q \in DOMAIN ul : uops[q + 1].uop = "DEFINE_LOCAL"}}

\* C9: every iteration starts at instruction 0 with an empty Value Table,
\* Type Table and loop-end table, so that an entry found in an iteration was
\* written in it, and a local buffer holds zeros until the iteration that
\* defined it stores into it
C9_FreshIteration ==
  /\ (pc = "run" /\ ExecutedNow = {}) =>
       /\ i = 0
       /\ DOMAIN ul = {} /\ DOMAIN dl = {} /\ DOMAIN loop_ends = {}
  /\ pc = "run" =>
       /\ \A p \in DOMAIN ul \cup DOMAIN dl : \E b \in ExecutedNow : xlog[b].pos = p
       /\ \A L \in DOMAIN loop_ends : \E b \in ExecutedNow : xlog[b].pos = loop_ends[L]
       /\ \A h \in LocalHandles :
            (\A q \in DOMAIN wlog : ~(wlog[q].it = gi /\ wlog[q].m = h)) =>
              \A e \in DOMAIN mem[h] : mem[h][e] = 0

\* the second iteration has defined its local buffer and loaded element 0 of
\* it, which is 0 although the first iteration stored into its own
C9_Witness ==
  /\ pc = "run" /\ gi = 2 /\ uops = LocalProg
  /\ Has(ul, 3) /\ \A k \in DOMAIN Lanes(ul[3]) : Lanes(ul[3])[k] = 0
  /\ \E q \in DOMAIN wlog : wlog[q].it = 1 /\ wlog[q].pos = 8 /\ wlog[q].v # 0
  /\ \E q \in DOMAIN wlog : wlog[q].it = 2 /\ wlog[q].pos = 5 /\ wlog[q].v = 0

----------------------------------------------------------------------------
(* The shape of the entries of the Value Table *)

\* the instruction executed last, where it was one of the iteration under way
LastExec == xlog[Len(xlog)]

\* the instruction pointer has just gone past a non-void instruction
AdvancedPast ==
  /\ pc = "run" /\ xlog # <<>> /\ LastExec.it = gi
  /\ LastExec.uop \notin void_ops
  /\ i > LastExec.pos

\* the entry at ref is a list of n lists of m elements each
IsNested(ref, n, m) ==
  /\ Len(heap[ref]) = n
  /\ \A k \in 1..n : Len(heap[heap[ref][k]]) = m

\* the statement with the lanes as the outer list: whenever the pointer has
\* gone past a non-void instruction its entry is a list of warp_size
\* elements, each a list of dtype.count elements for a vector dtype
C10_LaneMajor ==
  AdvancedPast =>
    LET p == LastExec.pos
        count == uops[p + 1].dtype.count
    IN /\ Has(ul, p)
       /\ IF count > 1 THEN IsNested(ul[p], warp_size, count)
          ELSE Len(heap[ul[p]]) = warp_size

\* C10: when the pointer goes from a non-void instruction to the next one,
\* the Value Table has an entry for the instruction: a list of warp_size
\* elements for a scalar dtype, and for a vector dtype a list of dtype.count
\* lists of warp_size elements; the pointer goes elsewhere only when a LOOP
\* is left, and then the LOOP has no entry and the pointer is after its ENDLOOP
C10_EntryShape ==
  AdvancedPast =>
    LET p == LastExec.pos
        count == uops[p + 1].dtype.count
    IN IF i = p + 1
       THEN /\ Has(ul, p)
            /\ IF count > 1 THEN IsNested(ul[p], count, warp_size)
               ELSE Len(heap[ul[p]]) = warp_size
       ELSE /\ LastExec.uop = "LOOP" /\ ~Has(ul, p)
            /\ i = EndOf(p) + 1

\* a CONST of a 2 element vector dtype has executed on one lane: its entry
\* has 2 lists of 1 element
C10_Witness ==
  /\ AdvancedPast /\ LastExec.uop = "CONST" /\ i = LastExec.pos + 1
  /\ uops[i].dtype.count = 2 /\ warp_size = 1
  /\ IsNested(ul[LastExec.pos], 2, 1)

----------------------------------------------------------------------------
(* Tensor cores *)

\* element (r, c) of C + A.B for the matrices of the run
MatmulAcc(r, c) ==
  call.C[r][c] + SumSeq([k \in 1..call.n |-> call.A[r][k - 1] * call.B[k - 1][c]])

\* the output map of the layout of the run
RowCol(lane, e) ==
  IF call.tag \in MetalTags THEN MetalRowCol(lane, e) ELSE HipRowCol(lane, e)

\* the position of the WMMA of the run
WmmaPos == CHOOSE p \in 0..(Len(uops) - 1) : uops[p + 1].uop = "WMMA"
WmmaExecuted == \E b \in DOMAIN xlog : xlog[b].pos = WmmaPos

\* C6: in each of the two layouts the WMMA leaves at element e of lane the
\* element (row, col) of C + A.B, (row, col) being what the output map of the
\* layout gives for (lane, e), and the program stores just that; where the
\* upper lanes do not repeat A the 16 by 16 layout fails
C6_WmmaIsMatmul ==
  WmmaExecuted =>
    IF call.dup
    THEN /\ pc # "fail" /\ Has(ul, WmmaPos)
         /\ Len(Rows(ul[WmmaPos])) = uops[WmmaPos + 1].dtype.count
         /\ \A e \in 0..(uops[WmmaPos + 1].dtype.count - 1) : \A lane \in 0..31 :
              Rows(ul[WmmaPos])[e + 1][lane + 1] =
                MatmulAcc(RowCol(lane, e)[1], RowCol(lane, e)[2])
         /\ pc = "done" =>
              \A e \in 0..(uops[WmmaPos + 1].dtype.count - 1) : \A lane \in 0..31 :
                mem[4][lane * uops[WmmaPos + 1].dtype.count + e + 1] =
                  MatmulAcc(RowCol(lane, e)[1], RowCol(lane, e)[2])
    ELSE pc = "fail" /\ err = "AssertionError" /\ i = WmmaPos

\* a 16 by 16 product has been stored, and an element of an upper lane of it
\* differs from the element of C it was added to
C6_Witness ==
  /\ pc = "done" /\ call.fn = "wmma" /\ call.tag \in HipTags /\ call.dup
  /\ mem[4][20 * 8 + 3 + 1] = MatmulAcc(7, 4)
  /\ mem[4][20 * 8 + 3 + 1] # call.C[7][4]
  /\ mem[4][20 * 8 + 3 + 1] # MatmulAcc(4, 7)

----------------------------------------------------------------------------
(* Failures *)

\* the element stores the STORE under the pointer goes through, in order
PendingStores ==
  IF IsImage(dtp[1]) THEN ImageStoreOps
  ELSE IF dtp[3].count > 1 THEN VectorStoreOps
  ELSE ScalarStoreOps

\* the first of them that fails: its assertion, or its offset
StoreFails(o) == ~o.check \/ o.off < 0 \/ o.off >= Len(mem[o.m])
FirstFailing(ops) ==
  CHOOSE q \in DOMAIN ops : StoreFails(ops[q]) /\ \A r \in 1..(q - 1) : ~StoreFails(ops[r])

\* the element stores made by the instruction at the pointer in this iteration
StoresHere ==
  LET qs == Ascending({q \in DOMAIN wlog : wlog[q].it = gi /\ wlog[q].pos = i})
  IN [k \in DOMAIN qs |-> [lane |-> wlog[qs[k]].lane, m |-> wlog[qs[k]].m,
                           off |-> wlog[qs[k]].off, v |-> wlog[qs[k]].v]]

\* how often the instruction at the pointer has executed in this iteration
TimesHere == Cardinality({b \in DOMAIN xlog : xlog[b].it = gi /\ xlog[b].pos = i})

\* an exception has been raised exactly when the call has failed; then the
\* failing instruction is the last one executed, it was executed once at
\* this place of the run, and a STORE that failed made the element stores
\* that come before its first failing one and no other (its executions
\* before, in a loop, made all of theirs)
FailedForGood ==
  /\ (err # "") = (pc = "fail")
  /\ pc = "fail" =>
       /\ xlog # <<>> /\ LastExec.pos = i /\ LastExec.it = gi
       /\ gi = Len(glog)
       /\ \A q \in DOMAIN wlog :
            wlog[q].it < gi \/ (wlog[q].it = gi /\ \E b \in DOMAIN xlog :
                                  xlog[b].it = gi /\ xlog[b].pos = wlog[q].pos)
       /\ (U.uop = "STORE" /\ OperandsBound /\ Len(inp) = 3
             /\ (IsImage(dtp[1]) => dtp[3].count = 4)) =>
            LET ops == PendingStores
                f == FirstFailing(ops)
                before == (TimesHere - 1) * Len(ops)
            IN /\ Len(StoresHere) = before + f - 1
               /\ \A k \in 1..(f - 1) :
                    StoresHere[before + k] =
                      [lane |-> ops[k].lane, m |-> ops[k].m, off |-> ops[k].off,
                       v |-> ops[k].v]

\* C11: a failure is immediate and unrecovered: once an instruction has
\* failed nothing changes any more, no instruction executes, the failing one
\* is not retried, no element of a buffer is written, no iteration starts
C11_FailureAborts == [](FailedForGood) /\ [][pc # "fail"]_vars

\* a STORE has failed on its second lane after storing for its first, in the
\* first of two iterations
C11_Witness ==
  /\ pc = "fail" /\ U.uop = "STORE" /\ StoresHere # <<>> /\ TimesHere = 1
  /\ \E q \in DOMAIN wlog : wlog[q].lane = 1
  /\ \A q \in DOMAIN wlog : wlog[q].pos = i => wlog[q].lane = 1

----------------------------------------------------------------------------
(* The overflow policy of exec_alu, under SpecAlu *)

\* calls of an arithmetic operation on operands of the declared integer dtype
Arithmetic(c) ==
  /\ c.fn = "exec_alu" /\ c.arg \in {"ADD", "SUB", "MUL", "NEG", "MAX", "MULACC"}
  /\ is_int(c.dtype)
  /\ \A k \in DOMAIN c.p : c.p[k].ty = c.dtype

\* the result over the integers
Exact(c) ==
  CASE c.arg = "ADD" -> c.p[1].v + c.p[2].v
    [] c.arg = "SUB" -> c.p[1].v - c.p[2].v
    [] c.arg = "MUL" -> c.p[1].v * c.p[2].v
    [] c.arg = "NEG" -> 0 - c.p[1].v
    [] c.arg = "MAX" -> IF c.p[1].v >= c.p[2].v THEN c.p[1].v ELSE c.p[2].v
    [] c.arg = "MULACC" -> c.p[1].v * c.p[2].v + c.p[3].v

\* the widest type of the class of t
Widest(t) == IF t \in UnsignedBases THEN "ulong" ELSE "long"

Fits(x, t) == MinOf(t) <= x /\ x <= MaxOf(t)

\* C12: a result that fits the resolved dtype is returned in it; one that
\* does not is returned in the 64 bit type of its class when it fits that,
\* and else the call fails with OverflowError; a value returned is the exact
\* result, never the result modulo a power of 2
C12_OverflowPolicy ==
  (ret.done /\ Arithmetic(call)) =>
    LET x == Exact(call)
    IN IF Fits(x, call.dtype)
       THEN ret.ok /\ ret.v = x /\ ret.ty = call.dtype
       ELSE IF Fits(x, Widest(call.dtype))
       THEN ret.ok /\ ret.v = x /\ ret.ty = Widest(call.dtype)
       ELSE ~ret.ok /\ ret.err = "OverflowError"

\* a sum of two 8 bit operands that needs 9 bits has been returned in the 64
\* bit type
C12_Witness ==
  /\ ret.done /\ ret.ok /\ Arithmetic(call) /\ call.arg = "ADD"
  /\ call.dtype = "char" /\ ret.ty = "long" /\ ret.v = 254

\* a product of two operands of the 64 bit type has overflowed it
C12_WitnessFails ==
  /\ ret.done /\ ~ret.ok /\ Arithmetic(call) /\ call.arg = "MUL"
  /\ call.dtype = "long" /\ ret.err = "OverflowError"

----------------------------------------------------------------------------
(* A LOOP whose start is not below its end *)

\* C13: a LOOP whose start bound equals or exceeds its end bound does not
\* fail on entry and executes the first instruction of its body next, with
\* the loop variable equal to the start bound on every lane: the body runs
\* once before the variable is compared with the end bound for the first
\* time.  That comparison, of start + 1 with end, does not leave the loop.
C13_RunOnceThenCheck ==
  \A L \in LoopPositions : \A a \in Entries(L) :
    TripCount(L) <= 0 =>
      /\ a = Len(xlog) => pc = "run" /\ i = L + 1 /\ Has(ul, L)
      /\ a < Len(xlog) =>
           /\ xlog[a + 1].pos = L + 1
           /\ xlog[a + 1].loops[L] = Repeat(LoopConst(L, 1), warp_size)
      /\ \A b \in (a + 1)..Len(xlog) :
           xlog[b].pos = L =>
             /\ \E c \in (a + 1)..(b - 1) : xlog[c].pos = L + 1
             /\ b < Len(xlog) => xlog[b + 1].pos = L + 1
      /\ ~Exited(L, a)

\* a loop from 2 to 2 has run its body with the variable 2, has compared 3
\* with 2 and has run its body again
C13_Witness ==
  \E L \in LoopPositions : \E a \in Entries(L) :
    /\ TripCount(L) = 0 /\ LoopConst(L, 1) = 2 /\ warp_size = 2
    /\ Len(ExecsIn(L, a, L + 1)) >= 2
    /\ xlog[ExecsIn(L, a, L + 1)[1]].loops[L] = <<2, 2>>
    /\ xlog[ExecsIn(L, a, L + 1)[2]].loops[L] = <<3, 3>>

----------------------------------------------------------------------------
(* Nested loops *)

\* the loops nested directly or indirectly in the loop at L
NestedIn(L) == {M \in LoopPositions : L < M /\ EndOf(M) < EndOf(L)}

\* the entries of the loop at M made while the loop entered at a was running
EntriesIn(L, a, M) == {b \in Entries(M) : a < b /\ b < ExitOf(L, a)}

\* the executions of the first body instruction of M during the loop entered at a
InnerBodyRuns(L, a, M) ==
  {b \in (a + 1)..(ExitOf(L, a) - 1) : xlog[b].pos = M + 1}

\* a LOOP has just been left
JustLeft ==
  /\ pc = "run" /\ xlog # <<>> /\ LastExec.it = gi
  /\ LastExec.uop = "LOOP" /\ i # LastExec.pos + 1

\* C14: a LOOP that exits has no Value Table entry any more and the pointer
\* is one past its ENDLOOP; a loop of N iterations nested in a loop of M
\* iterations is entered anew on each of the M outer iterations, runs from its
\* start to its end - 1 each time, and so executes its body M * N times
C14_NestedLoops ==
  /\ JustLeft => ~Has(ul, LastExec.pos) /\ i = EndOf(LastExec.pos) + 1
  /\ \A L \in LoopPositions : \A M \in NestedIn(L) : \A a \in Entries(L) :
       (TripCount(L) >= 1 /\ TripCount(M) >= 1) =>
         /\ Cardinality(EntriesIn(L, a, M)) <= TripCount(L)
         /\ \A b \in EntriesIn(L, a, M) :
              /\ xlog[b].loops[L] =
                   Repeat(LoopConst(L, 1) + Cardinality({c \in EntriesIn(L, a, M) : c < b}),
                          warp_size)
              /\ b < Len(xlog) =>
                   xlog[b + 1].loops[M] = Repeat(LoopConst(M, 1), warp_size)
              /\ Exited(M, b) =>
                   [k \in DOMAIN ExecsIn(M, b, M + 1) |->
                      xlog[ExecsIn(M, b, M + 1)[k]].loops[M][1]]
                     = [k \in 1..TripCount(M) |-> LoopConst(M, 1) + k - 1]
         /\ Exited(L, a) =>
              /\ Cardinality(EntriesIn(L, a, M)) = TripCount(L)
              /\ Cardinality(InnerBodyRuns(L, a, M)) = TripCount(L) * TripCount(M)

\* a loop of MaxTrip iterations nested in a loop of 2 has been left for the
\* second time, and the program has returned
C14_Witness ==
  /\ pc = "done"
  /\ \E L \in LoopPositions : \E M \in NestedIn(L) : \E a \in Entries(L) :
       /\ TripCount(L) = 2 /\ TripCount(M) = MaxTrip /\ Exited(L, a)
       /\ Cardinality(InnerBodyRuns(L, a, M)) = 2 * MaxTrip
       /\ mem[1][2 * MaxTrip] = 2 * MaxTrip

----------------------------------------------------------------------------
(* PHI *)

\* a PHI has just executed
JustPhi ==
  /\ pc = "run" /\ xlog # <<>> /\ LastExec.it = gi /\ LastExec.uop = "PHI"
  /\ i = LastExec.pos + 1

\* lo + (lo + 1) + ... + hi
SumRange(lo, hi) == ((hi - lo + 1) * (lo + hi)) \div 2

\* the PHIs that close the pattern DEFINE_ACC a; LOOP l; x = a + l; PHI(a, x)
\* with a starting from 0, as <<position of the PHI, a, l>>
Accumulations ==
  {t \in (0..(Len(uops) - 1)) \X (0..(Len(uops) - 1)) \X LoopPositions :
     /\ uops[t[1] + 1].uop = "PHI" /\ Len(uops[t[1] + 1].vin) = 2
     /\ uops[t[1] + 1].vin[1] = t[2]
     /\ uops[t[2] + 1].uop = "DEFINE_ACC" /\ uops[t[2] + 1].arg.n = 0
     /\ uops[t[2] + 1].dtype.count = 1
     /\ uops[uops[t[1] + 1].vin[2] + 1].uop = "ALU"
     /\ uops[uops[t[1] + 1].vin[2] + 1].arg.s = "ADD"
     /\ uops[uops[t[1] + 1].vin[2] + 1].vin = <<t[2], t[3]>>
     /\ t[3] < t[1] /\ t[1] < EndOf(t[3])}

\* C15: when a PHI with the operands (a, b) has executed, the entry of a
\* holds what the entry of b holds, and the entry of the PHI is the entry of
\* a itself; what a PHI wrote is what the next iteration of a loop reads from
\* a, so that a, accumulating the loop variable from 0, holds the sum of the
\* values of the variable so far after each PHI, and after the loop
C15_PhiInPlace ==
  /\ JustPhi =>
       LET p == LastExec.pos
           a == uops[p + 1].vin[1]
           b == uops[p + 1].vin[2]
       IN /\ ul[p] = ul[a]
          /\ heap[ul[a]] = heap[ul[b]]
  /\ \A t \in Accumulations :
       TripCount(t[3]) >= 1 =>
         /\ (JustPhi /\ LastExec.pos = t[1]) =>
              Lanes(ul[t[2]]) =
                Repeat(SumRange(LoopConst(t[3], 1), LastExec.loops[t[3]][1]), warp_size)
         /\ (pc \in {"run", "done"} /\ i > EndOf(t[3]) /\ Has(ul, t[2])) =>
              Lanes(ul[t[2]]) =
                Repeat(SumRange(LoopConst(t[3], 1), LoopConst(t[3], 2) - 1), warp_size)

\* the third PHI of a loop from 2 has executed: the accumulator holds
\* 2 + 3 + 4 on both lanes, and so does the entry of the PHI
C15_Witness ==
  /\ JustPhi /\ warp_size = 2
  /\ \E t \in Accumulations :
       /\ LastExec.pos = t[1] /\ LoopConst(t[3], 1) = 2
       /\ LastExec.loops[t[3]] = <<4, 4>>
       /\ Lanes(ul[t[2]]) = <<9, 9>> /\ Lanes(ul[t[1]]) = <<9, 9>>

----------------------------------------------------------------------------
(* BARRIER, IF and ENDIF *)

\* the instruction under the pointer is one of the three and will execute
AtNoOp ==
  /\ pc = "run" /\ i < Len(uops)
  /\ U.uop \in {"BARRIER", "IF", "ENDIF"}
  /\ OperandsBound

\* the STOREs between an IF and the ENDIF that names it that have executed
\* in this iteration and not failed, with the IF
GuardedStores ==
  {t \in (0..(Len(uops) - 1)) \X (0..(Len(uops) - 1)) :
     /\ uops[t[1] + 1].uop = "STORE" /\ uops[t[2] + 1].uop = "IF"
     /\ t[2] < t[1]
     /\ \E e \in (t[1] + 1)..(Len(uops) - 1) :
          uops[e + 1].uop = "ENDIF" /\ uops[e + 1].vin = <<t[2]>>
     /\ pc \in {"run", "done"} /\ i > t[1]
     /\ \E b \in DOMAIN xlog : xlog[b].it = gi /\ xlog[b].pos = t[1]}

\* a step from a BARRIER, an IF or an ENDIF moves the pointer one further and
\* nothing else
NoOpFrame ==
  AtNoOp => /\ i' = i + 1 /\ pc' = "run"
            /\ UNCHANGED <<ul, dl, loop_ends, mem, heap, pbufs, wlog, gi, idxs>>

\* a STORE between an IF and its ENDIF has stored for every lane, those whose
\* condition is false included
AllLanesStore ==
  \A t \in GuardedStores :
    {wlog[q].lane : q \in {r \in DOMAIN wlog : wlog[r].it = gi /\ wlog[r].pos = t[1]}}
      = 1..warp_size

\* C16: executing a BARRIER, an IF or an ENDIF adds 1 to the instruction
\* pointer and changes neither table, nor the loop ends, nor a buffer; the
\* instructions between an IF and its ENDIF execute on every lane whatever
\* the condition is
C16_NoOps == [][NoOpFrame]_vars /\ [](AllLanesStore)

\* the STORE between an IF and its ENDIF has stored for the second lane,
\* whose condition is false, and the ENDIF has executed
C16_Witness ==
  /\ pc = "run" /\ xlog # <<>> /\ LastExec.uop = "ENDIF" /\ i = LastExec.pos + 1
  /\ \E t \in GuardedStores :
       /\ Lanes(ul[uops[t[2] + 1].vin[1]]) = <<1, 0>>
       /\ \E q \in DOMAIN wlog : wlog[q].pos = t[1] /\ wlog[q].lane = 2

----------------------------------------------------------------------------
(* Global buffers *)

\* the DEFINE_GLOBALs that have an entry, and for each the number of
\* DEFINE_GLOBALs this iteration had executed when it had
BoundGlobals == {p \in DOMAIN ul : uops[p + 1].uop = "DEFINE_GLOBAL"}
OrdinalOf(p) ==
  LET at == CHOOSE b \in DOMAIN xlog : xlog[b].it = gi /\ xlog[b].pos = p
  IN Cardinality({b \in 1..at : xlog[b].it = gi /\ xlog[b].uop = "DEFINE_GLOBAL"})

\* C17: in every iteration the k-th DEFINE_GLOBAL executed binds the k-th
\* buffer of the call on every lane; what a lane stores through it is what
\* another lane loads from the same offset afterwards, in the same iteration
\* and in the next
C17_GlobalsShared ==
  /\ pc = "run" =>
       \A p \in BoundGlobals : Lanes(ul[p]) = Repeat(bufs[OrdinalOf(p)], warp_size)
  /\ (uops = SharedProg /\ pc = "run") =>
       /\ Has(ul, 11) =>
            Lanes(ul[11]) = <<10 * idxs[3] + 2, 10 * idxs[3] + 1>>
       /\ Has(ul, 6) =>
            Lanes(ul[6]) = IF gi = 1 THEN <<0, 0>>
                           ELSE <<10 * (idxs[3] - 1) + 2, 10 * (idxs[3] - 1) + 1>>

\* in the second iteration each of the two lanes has loaded what the other
\* stored in the first, and then what the other stored in the second
C17_Witness ==
  /\ uops = SharedProg /\ pc = "run" /\ gi = 2 /\ Has(ul, 11)
  /\ Lanes(ul[6]) = <<2, 1>> /\ Lanes(ul[11]) = <<12, 11>>
  /\ Lanes(ul[0]) = <<1, 1>> /\ Lanes(ul[1]) = <<2, 2>>

----------------------------------------------------------------------------
(* Void instructions and operands *)

\* the instruction about to execute, and its operand indices one by one
Executing == pc = "run" /\ i < Len(uops)
NonVoidAt(k) == uops[U.vin[k] + 1].uop \notin void_ops
Missing == \E k \in DOMAIN U.vin : NonVoidAt(k) /\ ~Has(ul, U.vin[k])
Kept(k) == Cardinality({m \in 1..k : NonVoidAt(m)})

VoidFree ==
  \A p \in DOMAIN ul \cup DOMAIN dl : uops[p + 1].uop \notin void_ops

OperandLists ==
  (Executing /\ ~Missing) =>
    /\ Len(ValueOperands) = Kept(Len(U.vin))
    /\ Len(inp) = Kept(Len(U.vin)) /\ Len(dtp) = Kept(Len(U.vin))
    /\ \A k \in DOMAIN U.vin :
         NonVoidAt(k) => /\ inp[Kept(k)] = ul[U.vin[k]]
                         /\ dtp[Kept(k)] = dl[U.vin[k]]

MissingFails ==
  Executing =>
    IF Missing
    THEN pc' = "fail" /\ err' = "KeyError" /\ UNCHANGED <<ul, dl, mem, i>>
    ELSE err' = "KeyError" => U.uop = "LOOP"

\* C18: no STORE, ENDLOOP, BARRIER, IF or ENDIF ever has a Value Table or Type
\* Table entry; the operand lists of an instruction hold the entries of its
\* non-void operands, in order, and nothing for a void operand; and an
\* instruction with a non-void operand that has no Value Table entry fails
C18_VoidOperands == [](VoidFree /\ OperandLists) /\ [][MissingFails]_vars

\* a LOAD that names a BARRIER as its third operand has loaded from its two
\* value operands
C18_Witness ==
  /\ uops = LocalProg /\ pc = "run" /\ Has(ul, 10)
  /\ uops[11].vin = <<1, 2, 9>> /\ uops[10].uop = "BARRIER"
  /\ ~Has(ul, 9) /\ ~Has(dl, 9)

\* an ALU whose second operand was not computed yet has failed
C18_WitnessFails ==
  /\ pc = "fail" /\ err = "KeyError" /\ U.uop = "ALU"
  /\ ~Has(ul, U.vin[2])

----------------------------------------------------------------------------
(* Programs that overwrite a loop variable, and the interpreter taking every
   step it can on programs of loops *)

\* out[l] = the loop variable, to which a PHI adds the lane number l in every
\* round
SkewProg(end) ==
  << UOp("DEFINE_GLOBAL", INT, <<>>, NoArg),            \* 0
     UOp("CONST", INT, <<>>, Arg(0, "")),               \* 1
     UOp("CONST", INT, <<>>, Arg(end, "")),             \* 2
     UOp("SPECIAL", INT, <<>>, Arg(0, "l")),            \* 3
     UOp("LOOP", INT, <<1, 2>>, NoArg),                 \* 4
     UOp("ALU", INT, <<4, 3>>, Arg(0, "ADD")),          \* 5
     UOp("PHI", INT, <<4, 5>>, NoArg),                  \* 6
     UOp("STORE", NoDType, <<0, 3, 4>>, NoArg),         \* 7
     UOp("ENDLOOP", NoDType, <<4>>, NoArg) >>           \* 8

SkewRuns ==
  {Run(SkewProg(end), <<1, 1, 1>>, <<2, 1, 1>>, <<Untouched(2)>>) :
     end \in 2..MaxTrip}

\* a loop from 0 to end whose body sets the loop variable to end
SpinProg(end) ==
  << UOp("CONST", INT, <<>>, Arg(0, "")),               \* 0
     UOp("CONST", INT, <<>>, Arg(end, "")),             \* 1
     UOp("LOOP", INT, <<0, 1>>, NoArg),                 \* 2
     UOp("PHI", INT, <<2, 1>>, NoArg),                  \* 3
     UOp("ENDLOOP", NoDType, <<2>>, NoArg) >>           \* 4

SpinRuns ==
  {Run(SpinProg(end), <<1, 1, 1>>, <<2, 1, 1>>, <<>>) : end \in 1..MaxTrip}

InitPhi == \E r \in Catalogue \cup SkewRuns : Start(r)

SpecPhi == InitPhi /\ [][Next]_vars

\* an outer loop of m rounds and an inner loop of n, and out[n] = m after them
CountProg(m, n) ==
  << UOp("DEFINE_GLOBAL", INT, <<>>, NoArg),            \* 0
     UOp("CONST", INT, <<>>, Arg(0, "")),               \* 1
     UOp("CONST", INT, <<>>, Arg(m, "")),               \* 2
     UOp("CONST", INT, <<>>, Arg(n, "")),               \* 3
     UOp("LOOP", INT, <<1, 2>>, NoArg),                 \* 4
     UOp("LOOP", INT, <<1, 3>>, NoArg),                 \* 5
     UOp("BARRIER", NoDType, <<>>, NoArg),              \* 6
     UOp("ENDLOOP", NoDType, <<5>>, NoArg),             \* 7
     UOp("ENDLOOP", NoDType, <<4>>, NoArg),             \* 8
     UOp("STORE", NoDType, <<0, 3, 2>>, NoArg) >>       \* 9

CountRuns ==
  {Run(CountProg(m, n), <<g0, 1, 1>>, <<2, 1, 1>>, <<Untouched(MaxTrip + 1)>>) :
     m \in 1..MaxTrip, n \in 1..MaxTrip, g0 \in 1..MaxGlobal}

\* a program that fails: no buffer is passed for its DEFINE_GLOBAL
UnboundRuns ==
  {Run(<<UOp("CONST", INT, <<>>, Arg(0, "")),
         UOp("DEFINE_GLOBAL", INT, <<>>, NoArg)>>, <<g0, 1, 1>>, <<1, 1, 1>>, <<>>) :
     g0 \in 1..MaxGlobal}

InitFair == \E r \in CountRuns \cup SpinRuns \cup UnboundRuns : Start(r)

\* the instructions of these programs
NextFair ==
  \/ ForIdxs \/ Return
  \/ Store \/ Endloop \/ NoOp
  \/ DefineGlobal \/ Const \/ Loop \/ Phi

\* lines 106-244 run on one thread without waiting for anything: a step that
\* can be taken is taken
SpecFair == InitFair /\ [][NextFair]_vars /\ WF_vars(NextFair)

----------------------------------------------------------------------------
(* Lock-step loop control *)

\* the positions whose entry can be the list of the loop variable of L: a PHI
\* emits its first operand, a GEP an element of it, a scalar CAST that cannot
\* convert it the operand itself
RECURSIVE AliasClosure(_)
AliasClosure(S) ==
  LET more == {q \in 0..(Len(uops) - 1) :
                 /\ uops[q + 1].uop \in {"PHI", "GEP", "CAST"}
                 /\ uops[q + 1].vin # <<>>
                 /\ uops[q + 1].vin[1] \in S}
  IN IF more \subseteq S THEN S ELSE AliasClosure(S \cup more)

\* some PHI of the program writes into the list of the loop variable of L
Overwritten(L) ==
  \E q \in 0..(Len(uops) - 1) :
    /\ uops[q + 1].uop = "PHI" /\ uops[q + 1].vin # <<>>
    /\ uops[q + 1].vin[1] \in AliasClosure({L})

RunningLoops == {L \in LoopPositions : Has(ul, L)}
LanesAgree(L) == \A k \in DOMAIN Lanes(ul[L]) : Lanes(ul[L])[k] = Lanes(ul[L])[1]

\* the times the LOOP at L has executed since it was entered last
BackEdges(L) ==
  LET a == CHOOSE e \in Entries(L) : \A f \in Entries(L) : f <= e
  IN Cardinality({b \in (a + 1)..Len(xlog) : xlog[b].pos = L})

\* the LOOP about to execute a back-edge leaves exactly if every lane has
\* reached lane 0 of the end operand
CommonDecision ==
  (Executing /\ U.uop = "LOOP" /\ Has(ul, i) /\ ~Overwritten(i) /\ pc' = "run") =>
    (~Has(ul', i) <=> \A k \in DOMAIN Lanes(ul[i]) :
                        Lanes(ul[i])[k] + 1 = Lanes(inp[2])[1])

\* the statement for every program: the lanes of a loop variable agree
C20_LockStep == pc = "run" => \A L \in RunningLoops : LanesAgree(L)

\* C20: where no PHI writes into the list of a loop variable, every lane of
\* it holds lane 0 of the start operand plus the number of back-edges taken,
\* and the loop is left on the decision every lane would take
C20_LockStepUntouched ==
  /\ [](pc = "run" =>
          \A L \in RunningLoops :
            ~Overwritten(L) =>
              /\ LanesAgree(L)
              /\ Len(Lanes(ul[L])) = warp_size
              /\ Lanes(ul[L])[1] = LoopConst(L, 1) + BackEdges(L))
  /\ [][CommonDecision]_vars

\* two lanes are in the second round of a loop, both with the variable 1
C20_Witness ==
  /\ pc = "run" /\ uops = LoopProg(0, MaxTrip) /\ warp_size = 2
  /\ Has(ul, 4) /\ Lanes(ul[4]) = <<1, 1>> /\ i = 5

----------------------------------------------------------------------------
(* Termination *)

EndloopPositions == {E \in 0..(Len(uops) - 1) : uops[E + 1].uop = "ENDLOOP"}
EndsOf(L) == {E \in EndloopPositions : uops[E + 1].vin = <<L>>}

\* each LOOP has constant bounds with start < end and one ENDLOOP, each
\* ENDLOOP names a LOOP before it, and two loops are nested or apart
WellFormed ==
  /\ \A L \in LoopPositions :
       /\ Len(uops[L + 1].vin) = 2
       /\ \A k \in 1..2 : uops[uops[L + 1].vin[k] + 1].uop = "CONST"
       /\ LoopConst(L, 1) < LoopConst(L, 2)
       /\ Cardinality(EndsOf(L)) = 1
  /\ \A E \in EndloopPositions :
       \E L \in LoopPositions : L < E /\ uops[E + 1].vin = <<L>>
  /\ \A L \in LoopPositions : \A M \in LoopPositions :
       L < M => (EndOf(M) < EndOf(L) \/ EndOf(L) < M)

\* no PHI writes into the list of a loop bound or of a loop variable
BoundsKept ==
  \A L \in LoopPositions : \A k \in DOMAIN uops[L + 1].vin :
    ~Overwritten(uops[L + 1].vin[k])
LoopsUntouched == \A L \in LoopPositions : ~Overwritten(L)

Over == pc = "done" \/ pc = "fail"
IterationOver == pc = "fail" \/ (pc \in {"run", "done"} /\ i = Len(uops))
PointerInRange == 0 <= i /\ i <= Len(uops)
BackOnlyAtEndloop ==
  i' < i => (gi' # gi \/ (Executing /\ U.uop = "ENDLOOP"))

\* the statement for every well-formed program whose loop bounds are kept
C19_Terminates ==
  /\ (WellFormed /\ BoundsKept /\ pc = "run") ~> IterationOver
  /\ (WellFormed /\ BoundsKept /\ pc = "call") ~> Over

\* C19: in a well-formed program whose loop bounds and loop variables no PHI
\* overwrites, every iteration reaches the end of the program or fails, the
\* call returns or fails, and the instruction pointer stays within
\* 0..len(program) and goes back only at an ENDLOOP
C19_TerminatesUntouched ==
  /\ (WellFormed /\ BoundsKept /\ LoopsUntouched /\ pc = "run") ~> IterationOver
  /\ (WellFormed /\ BoundsKept /\ LoopsUntouched /\ pc = "call") ~> Over
  /\ []((WellFormed /\ BoundsKept /\ LoopsUntouched) => PointerInRange)
  /\ [][(WellFormed /\ BoundsKept /\ LoopsUntouched) => BackOnlyAtEndloop]_vars

\* the call of two nested loops of MaxTrip rounds each has returned from its
\* last iteration
C19_Witness ==
  /\ uops = CountProg(MaxTrip, MaxTrip) /\ pc = "done" /\ i = Len(uops)
  /\ gi = MaxGlobal
  /\ WellFormed /\ BoundsKept /\ LoopsUntouched
  /\ Cardinality({b \in DOMAIN xlog : xlog[b].it = gi /\ xlog[b].pos = 6})
       = MaxTrip * MaxTrip

====
